---- MODULE Spec2Model ----
(***************************************************************************)
(* Model of the mt5_trader data collector: the session state machine       *)
(* (collector/session_manager.py), the session verbs of the collector      *)
(* service (collector/collector_service.py) and the position monitor       *)
(* (collector/position_monitor.py).                                        *)
(*                                                                         *)
(* Conventions                                                             *)
(*   - Optional[T] is a sequence of length <= 1: None == <<>>, Some(x).    *)
(*   - a datetime is an integer count of clock ticks, SubPerSec ticks to   *)
(*     the second (the sub-second part is what strftime drops).            *)
(*   - a price or a profit is an integer count of hundredths.              *)
(***************************************************************************)
EXTENDS Integers, Sequences, FiniteSets, TLC

(***************************************************************************)
(* Bounds of the model.                                                    *)
(***************************************************************************)
\* clock ticks per second
SubPerSec == 2
\* session verb calls in one behaviour
MaxCalls == 3
\* session verb calls in one behaviour of SpecLifecycle
MaxLifecycleCalls == 5
\* broker tickets are 1..MaxTicket
MaxTicket == 2
\* polls in one behaviour
MaxPolls == 1
\* detections and thought submissions in one behaviour of SpecQueue
MaxDetects == 3
MaxSubmits == 2
\* detections and thought submissions in one behaviour of SpecOverflow
MaxOverflowDetects == 11
MaxOverflowSubmits == 1
\* times the terminal stops answering in one behaviour
MaxOutages == 1
\* poll iterations that raise in one behaviour
MaxFailures == 2
\* session requests received in one behaviour
MaxRequests == 3
\* detections, and requests, made while the other thread runs
MaxRaceDetects == 2
MaxRaceRequests == 2
\* session verbs called while storage may fail, and the writes that may fail
MaxFailCalls == 3
MaxFailWrite == 6
\* session verbs called while the collaborators may fail
MaxCaptureCalls == 3
\* lines in the exported file
MaxLines == 3
\* session verbs called while the monitor runs
MaxPriceCalls == 2
MaxStopReports == 3
MaxShots == 2
MaxConnCalls == 1
MaxFrameCalls == 1
MaxFrameSubmits == 1

(***************************************************************************)
(* Program constants.                                                      *)
(***************************************************************************)
\* profit_pips = profit * 10
PipScale == 10
\* deque(maxlen=10)
PendingMaxLen == 10
\* prices of the scenario at the foot of session_manager.py, in hundredths
ScenarioEntryPrice == 285050
ScenarioExitPrice == 285520

None == <<>>
Some(x) == <<x>>
IsSome(o) == Len(o) = 1
Val(o) == o[1]

Symbol == "XAUUSDp"
Timeframes == <<"D1", "H4", "M15", "M5", "M1">>
AutoCloseThought == "Session auto-closed due to new session start"

(***************************************************************************)
(* models/market_data.py: the enums.  A member is written in upper case,   *)
(* its value is what is stored in JSON.                                    *)
(***************************************************************************)
Action == {"BUY", "SELL", "STOP_LOSS", "HOLD"}
SessionStatus == {"ACTIVE", "COMPLETED"}

StatusValue(st) == IF st = "ACTIVE" THEN "active" ELSE "completed"
StatusOfValue(v) == IF v = "active" THEN "ACTIVE" ELSE "COMPLETED"

(***************************************************************************)
(* datetime conversions.                                                   *)
(***************************************************************************)
\* timestamp.strftime("%Y%m%d_%H%M%S"): whole seconds, the fraction dropped
Strftime(t) == t \div SubPerSec
\* timestamp.isoformat(): seconds and fraction, both kept
Isoformat(t) == [sec |-> t \div SubPerSec, frac |-> t % SubPerSec]
\* datetime.fromisoformat
Fromisoformat(s) == s.sec * SubPerSec + s.frac

\* int(x / y) of Python: truncation towards zero
TruncDiv(x, y) == IF x >= 0 THEN x \div y ELSE -((-x) \div y)
\* round(x / y) of Python for integers x, y > 0: half to even
RoundDiv(x, y) ==
    LET q == x \div y
        r == x % y
    IN  IF 2 * r < y THEN q
        ELSE IF 2 * r > y THEN q + 1
        ELSE IF q % 2 = 0 THEN q ELSE q + 1
\* round(v, 2) of a value held in hundredths
Round2(v) == RoundDiv(v, 1)
\* round(v, 1) of a value held in hundredths
Round1(v) == RoundDiv(v, 10) * 10

(***************************************************************************)
(* models/market_data.py: TradingSession and its parts.                    *)
(***************************************************************************)
SessionEntry(time, price, thought) ==
    [time |-> time, action |-> "BUY", price |-> price, thought |-> thought]
SessionExit(time, action, price, thought) ==
    [time |-> time, action |-> action, price |-> price, thought |-> thought]
HoldRecord(time, thought) == [time |-> time, thought |-> thought]
SessionResult(dm, profit, pips) ==
    [duration_minutes |-> dm, profit |-> profit, profit_pips |-> pips]

\* TradingSession(session_id, symbol, status, entry, snapshot_count) with the
\* field defaults of the class
TradingSession(session_id, status, entry, snapshot_count) ==
    [session_id |-> session_id, symbol |-> Symbol, status |-> status,
     entry |-> entry, exit |-> None, holds |-> <<>>, result |-> None,
     snapshot_count |-> snapshot_count, timeframes |-> Timeframes]

(***************************************************************************)
(* State.                                                                  *)
(***************************************************************************)
VARIABLES
    clock,                 \* the last value datetime.now() returned
    active_session,        \* SessionManager._active_session
    active_session_dir,    \* SessionManager._active_session_dir (the session id names it)
    disk,                  \* session directory -> contents of its session.json
    snapshots,             \* <<session directory, snapshot directory>> -> its files
    actions_count,         \* CollectorStatus.actions_count
    last_action_at,        \* CollectorStatus.last_action_at
    last_market_state,     \* CollectorService._last_market_state
    last_position_info,    \* CollectorService._last_position_info
    ncalls,                \* session verb calls made
    last,                  \* the last session verb call: its arguments and outcome
    previous_positions,    \* PositionMonitor._previous_positions
    mon_last_action,       \* PositionMonitor._last_action
    mon_last_position_info,\* PositionMonitor._last_position_info
    mon_running,           \* PositionMonitor._running
    pending_actions,       \* ThoughtManager._pending_actions
    action_log,            \* DataLinker._action_log
    npolls,                \* polls made
    lastPoll,              \* the last poll since start(): what it compared and found
    thoughts,              \* ThoughtManager._thoughts
    thought_files,         \* <<second, action>> -> the thought file of that name
    data_points,           \* DataLinker._data_points
    training_files,        \* <<second, action>> -> the training file of that name
    ndetect,               \* _on_action_detected calls made by themselves
    nsubmit,               \* submit_thought calls made
    lastSubmit,            \* the last submit_thought call: its arguments and outcome
    broker,                \* ticket -> profit, of the positions open at the broker
    closed,                \* the tickets the broker has closed: none comes back
    mt5_up,                \* the terminal answers: initialize() and positions_get work
    mt5_initialized,       \* PositionMonitor._initialized
    mon_thread,            \* the thread of PositionMonitor._poll_loop is alive
    svc_running,           \* CollectorService._running
    shot_thread,           \* the thread of CollectorService._screenshot_loop is alive
    status_is_running,     \* CollectorStatus.is_running
    started_at,            \* CollectorStatus.started_at
    noutages,              \* times the terminal has stopped answering
    nfailures,             \* poll iterations that ended in an exception
    ticks,                 \* poll iterations begun, modulo 2
    lastIter,              \* the last poll iteration: how it ended
    lastStart,             \* the last CollectorService.start call and what it returned
    reported,              \* <<"open" or "close", ticket>> handed to the callback
    missed,                \* <<"open" or "close", ticket>> taken into the baseline unreported
    late_thread,           \* a poll thread that stop() gave up joining is still alive
    stops,                 \* CollectorService.stop calls made, modulo 2
    handlers,              \* the session requests received, each with its handler's position
    reg_poll,              \* poll thread: the actions_count it has read and not yet written back
    reg_req,               \* request thread: the same
    scan,                  \* request thread: its iterator over the pending deque
    increments,            \* executions of actions_count += 1 completed
    lastCapture,           \* how the collaborators of the last session verb answered
    lines_file,            \* the lines of horizontal_lines.json as MT5 exported them
    lines_read,            \* the last read_raw: the file it read and the lines it returned
    mt5_connected          \* the process's connection to the terminal: mt5.initialize() to mt5.shutdown()

sessionVars == <<clock, active_session, active_session_dir, disk, snapshots,
                 actions_count, last_action_at, last_market_state,
                 last_position_info, ncalls, last>>
monitorVars == <<previous_positions, mon_last_action, mon_last_position_info,
                 mon_running, pending_actions, action_log, npolls, lastPoll>>
thoughtVars == <<thoughts, thought_files, data_points, training_files, ndetect,
                 nsubmit, lastSubmit>>
gatewayVars == <<broker, closed, mt5_up, noutages>>
serviceVars == <<svc_running, shot_thread, status_is_running, started_at, lastStart>>
loopVars == <<mt5_initialized, mon_thread, nfailures, ticks, lastIter, reported,
              missed>>
stopVars == <<late_thread, stops>>
appVars == <<handlers>>
raceVars == <<reg_poll, reg_req, scan, increments>>
capVars == <<lastCapture>>
lineVars == <<lines_file, lines_read>>
connVars == <<mt5_connected>>
vars == <<sessionVars, monitorVars, thoughtVars, gatewayVars, serviceVars, loopVars,
          stopVars, appVars, raceVars, capVars, lineVars, connVars>>

(***************************************************************************)
(* SessionManager.  A method is an operator on the record m of the         *)
(* manager's fields and storage:                                           *)
(*   active, dir   _active_session, _active_session_dir                    *)
(*   disk, snaps   the files under sessions_dir                            *)
(*   writes        the files this call has written, in order               *)
(*   exc           an exception is propagating: the rest of the method is  *)
(*                 skipped                                                 *)
(*   failIn        k > 0: the k-th file write from now raises; 0: none does*)
(*   swallowed     exceptions of this call caught and logged inside it     *)
(***************************************************************************)
Manager(a, d, dk, sn, f) ==
    [active |-> a, dir |-> d, disk |-> dk, snaps |-> sn,
     writes |-> <<>>, exc |-> FALSE, failIn |-> f, swallowed |-> 0]

\* open(path, "w") + json.dump: raises when the write is the failing one
WriteRaises(m) == m.failIn = 1
Written(m, ev) ==
    [m EXCEPT !.writes = Append(@, ev),
              !.failIn = IF @ > 1 THEN @ - 1 ELSE @]

\* _market_state_to_dict
MarketStateToDict(market_state, timestamp) ==
    [timestamp |-> Isoformat(timestamp), symbol |-> Symbol,
     m1 |-> market_state.m1]

NoFiles == [thought |-> None, market |-> None, screenshots |-> {}, lines |-> FALSE]

\* the end of _save_snapshot: horizontal_lines.json is read and written
\* inside try ... except Exception, which logs a warning and goes on
SaveLines(m, key) ==
    IF WriteRaises(m)
    THEN [m EXCEPT !.failIn = 0, !.swallowed = @ + 1]
    ELSE [m EXCEPT !.snaps[key].lines = TRUE,
                   !.failIn = IF @ > 1 THEN @ - 1 ELSE @]

\* _save_snapshot: the snapshot directory is named by the second and the
\* action; mkdir(exist_ok=True) keeps what an earlier snapshot of that name
\* left, thought.json is rewritten, market_data.json and the screenshots are
\* written only when there is something to write.
SaveSnapshot(m, timestamp, action, thought, market_state, screenshots) ==
    IF m.exc \/ m.dir = None THEN m
    ELSE IF WriteRaises(m) THEN [m EXCEPT !.exc = TRUE]
    ELSE
    LET key == <<Val(m.dir), <<Strftime(timestamp), action>>>>
        old == IF key \in DOMAIN m.snaps THEN m.snaps[key] ELSE NoFiles
        thought_data == [timestamp |-> Isoformat(timestamp),
                         action |-> action, thought |-> thought]
        files == [thought |-> Some(thought_data),
                  market |-> IF IsSome(market_state)
                             THEN Some(MarketStateToDict(Val(market_state), timestamp))
                             ELSE old.market,
                  screenshots |-> old.screenshots \cup screenshots,
                  lines |-> old.lines]
    IN  SaveLines(Written([m EXCEPT !.snaps = (key :> files) @@ @],
                          [kind |-> "snapshot", dir |-> Val(m.dir),
                           name |-> <<Strftime(timestamp), action>>]),
                  key)

\* SessionToDict with the hold times written to the second only
SessionToDict_HoldSeconds(s) ==
    [session_id |-> s.session_id,
     symbol |-> s.symbol,
     status |-> StatusValue(s.status),
     entry |-> IF IsSome(s.entry)
               THEN Some([time |-> Isoformat(Val(s.entry).time),
                          action |-> Val(s.entry).action,
                          price |-> Val(s.entry).price,
                          thought |-> Val(s.entry).thought])
               ELSE None,
     exit |-> IF IsSome(s.exit)
              THEN Some([time |-> Isoformat(Val(s.exit).time),
                         action |-> Val(s.exit).action,
                         price |-> Val(s.exit).price,
                         thought |-> Val(s.exit).thought])
              ELSE None,
     holds |-> [i \in 1..Len(s.holds) |->
                  [time |-> [sec |-> Strftime(s.holds[i].time), frac |-> 0],
                   thought |-> s.holds[i].thought]],
     result |-> s.result,
     snapshot_count |-> s.snapshot_count,
     timeframes |-> s.timeframes]

\* the session_data dictionary _save_session builds
SessionToDict(s) ==
    [session_id |-> s.session_id,
     symbol |-> s.symbol,
     status |-> StatusValue(s.status),
     entry |-> IF IsSome(s.entry)
               THEN Some([time |-> Isoformat(Val(s.entry).time),
                          action |-> Val(s.entry).action,
                          price |-> Val(s.entry).price,
                          thought |-> Val(s.entry).thought])
               ELSE None,
     exit |-> IF IsSome(s.exit)
              THEN Some([time |-> Isoformat(Val(s.exit).time),
                         action |-> Val(s.exit).action,
                         price |-> Val(s.exit).price,
                         thought |-> Val(s.exit).thought])
              ELSE None,
     holds |-> [i \in 1..Len(s.holds) |->
                  [time |-> Isoformat(s.holds[i].time),
                   thought |-> s.holds[i].thought]],
     result |-> s.result,
     snapshot_count |-> s.snapshot_count,
     timeframes |-> s.timeframes]

\* _save_session
SaveSession(m) ==
    IF m.exc \/ m.active = None \/ m.dir = None THEN m
    ELSE IF WriteRaises(m) THEN [m EXCEPT !.exc = TRUE]
    ELSE Written([m EXCEPT !.disk = (Val(m.dir) :> SessionToDict(Val(m.active))) @@ @],
                 [kind |-> "session", dir |-> Val(m.dir),
                  name |-> StatusValue(Val(m.active).status)])

\* _dict_to_session
DictToSession(data) ==
    [session_id |-> data.session_id,
     symbol |-> data.symbol,
     status |-> StatusOfValue(data.status),
     entry |-> IF IsSome(data.entry)
               THEN Some([time |-> Fromisoformat(Val(data.entry).time),
                          action |-> Val(data.entry).action,
                          price |-> Val(data.entry).price,
                          thought |-> Val(data.entry).thought])
               ELSE None,
     exit |-> IF IsSome(data.exit)
              THEN Some([time |-> Fromisoformat(Val(data.exit).time),
                         action |-> Val(data.exit).action,
                         price |-> Val(data.exit).price,
                         thought |-> Val(data.exit).thought])
              ELSE None,
     holds |-> [i \in 1..Len(data.holds) |->
                  HoldRecord(Fromisoformat(data.holds[i].time), data.holds[i].thought)],
     result |-> data.result,
     snapshot_count |-> data.snapshot_count,
     timeframes |-> data.timeframes]

\* get_session(session_id) against the files dk
GetSession(dk, session_id) ==
    IF session_id \in DOMAIN dk THEN Some(DictToSession(dk[session_id])) ELSE None

\* CalcResult with the minutes rounded to the nearest instead of cut off
CalcResult_RoundedMinutes(entry, timestamp, price) ==
    LET duration_minutes == RoundDiv(timestamp - entry.time, 60 * SubPerSec)
        profit == price - entry.price
        profit_pips == profit * PipScale
    IN  SessionResult(duration_minutes, Round2(profit), Round1(profit_pips))

\* end_session, "Calculate result"
CalcResult(entry, timestamp, price) ==
    LET duration_minutes == TruncDiv(timestamp - entry.time, 60 * SubPerSec)
        profit == price - entry.price
        profit_pips == profit * PipScale
    IN  SessionResult(duration_minutes, Round2(profit), Round1(profit_pips))

\* Completed with the status left as it was
Completed_StatusKept(s, action, thought, price, timestamp) ==
    [s EXCEPT !.exit = Some(SessionExit(timestamp, action, price, thought)),
              !.snapshot_count = @ + 1,
              !.result = IF IsSome(s.entry)
                         THEN Some(CalcResult(Val(s.entry), timestamp, price))
                         ELSE @]

\* Completed with no result calculated
Completed_NoResult(s, action, thought, price, timestamp) ==
    [s EXCEPT !.exit = Some(SessionExit(timestamp, action, price, thought)),
              !.status = "COMPLETED",
              !.snapshot_count = @ + 1]

\* end_session, the fields it sets on the active session before saving
Completed(s, action, thought, price, timestamp) ==
    [s EXCEPT !.exit = Some(SessionExit(timestamp, action, price, thought)),
              !.status = "COMPLETED",
              !.snapshot_count = @ + 1,
              !.result = IF IsSome(s.entry)
                         THEN Some(CalcResult(Val(s.entry), timestamp, price))
                         ELSE @]

\* end_session: [m |-> the manager afterwards, ret |-> the value returned]
EndSession(m, action, thought, price, market_state, screenshots, timestamp) ==
    IF m.exc \/ m.active = None THEN [m |-> m, ret |-> None]
    ELSE
    LET m1 == [m EXCEPT !.active = Some(Completed(Val(m.active), action, thought,
                                                  price, timestamp))]
        m2 == SaveSnapshot(m1, timestamp, action, thought, market_state, screenshots)
        m3 == SaveSession(m2)
    IN  IF m3.exc THEN [m |-> m3, ret |-> None]
        ELSE [m |-> [m3 EXCEPT !.active = None, !.dir = None], ret |-> m3.active]

\* WithHold with snapshot_count left as it was
WithHold_NoCount(s, thought, timestamp) ==
    [s EXCEPT !.holds = Append(@, HoldRecord(timestamp, thought))]

\* WithHold stamping the entry with the time of the hold as well
WithHold_EntryRestamped(s, thought, timestamp) ==
    [s EXCEPT !.holds = Append(@, HoldRecord(timestamp, thought)),
              !.snapshot_count = @ + 1,
              !.entry = Some([Val(@) EXCEPT !.time = timestamp])]

\* add_hold, the fields it sets on the active session before saving
WithHold(s, thought, timestamp) ==
    [s EXCEPT !.holds = Append(@, HoldRecord(timestamp, thought)),
              !.snapshot_count = @ + 1]

\* add_hold
AddHold(m, thought, market_state, screenshots, timestamp) ==
    IF m.active = None THEN [m |-> m, ret |-> FALSE]
    ELSE
    LET m1 == [m EXCEPT !.active = Some(WithHold(Val(m.active), thought, timestamp))]
        m2 == SaveSnapshot(m1, timestamp, "HOLD", thought, market_state, screenshots)
        m3 == SaveSession(m2)
    IN  [m |-> m3, ret |-> ~m3.exc]

\* start_session, the session it creates
NewSession(session_id, timestamp, price, thought) ==
    TradingSession(session_id, "ACTIVE",
                   Some(SessionEntry(timestamp, price, thought)), 1)

\* StartSession without the force-completion of the active session
StartSession_NoForceComplete(m, thought, price, market_state, screenshots, tEnd, tStart) ==
    LET session_id == Strftime(tStart)
        m1 == [m EXCEPT !.dir = Some(session_id),
                        !.active = Some(NewSession(session_id, tStart, price, thought))]
        m2 == SaveSnapshot(m1, tStart, "BUY", thought, market_state, screenshots)
        m3 == SaveSession(m2)
    IN  [m |-> m3, ret |-> IF m3.exc THEN None ELSE Some(session_id)]

\* start_session.  tEnd is the clock the force-completing end_session reads,
\* tStart the clock start_session itself reads afterwards.
StartSession(m, thought, price, market_state, screenshots, tEnd, tStart) ==
    LET m0 == IF m.active # None
              THEN EndSession(m, "SELL", AutoCloseThought, price, market_state,
                              screenshots, tEnd).m
              ELSE m
        session_id == Strftime(tStart)
        m1 == IF m0.exc THEN m0
              ELSE [m0 EXCEPT !.dir = Some(session_id),
                              !.active = Some(NewSession(session_id, tStart, price, thought))]
        m2 == SaveSnapshot(m1, tStart, "BUY", thought, market_state, screenshots)
        m3 == SaveSession(m2)
    IN  [m |-> m3, ret |-> IF m3.exc THEN None ELSE Some(session_id)]

(***************************************************************************)
(* CollectorService: the three session verbs.                              *)
(***************************************************************************)
\* _get_current_market_state, what collect_all_timeframes does to the
\* connection: initialize(), and shutdown() in its finally clause; it returns
\* before the try when initialize() fails
Collected(market_state) ==
    mt5_connected' = (IF IsSome(market_state) THEN FALSE ELSE mt5_connected)

\* _get_current_price
GetCurrentPrice(position_info, market_state) ==
    IF IsSome(position_info) THEN Val(position_info).price
    ELSE IF IsSome(market_state) /\ IsSome(Val(market_state).m1)
         THEN Val(Val(market_state).m1)
    ELSE 0

TheManager(f) == Manager(active_session, active_session_dir, disk, snapshots, f)

\* what a verb leaves in the manager and in the status counters; t is the
\* last clock value the verb read, accepted whether the counters are bumped
Leave(m, t, accepted) ==
    /\ active_session' = m.active
    /\ active_session_dir' = m.dir
    /\ disk' = m.disk
    /\ snapshots' = m.snaps
    /\ clock' = t
    /\ actions_count' = IF accepted THEN actions_count + 1 ELSE actions_count
    /\ last_action_at' = IF accepted THEN Some(t) ELSE last_action_at
    /\ ncalls' = ncalls + 1
    /\ UNCHANGED last_position_info

\* the record of a call: ok is the truth value of what it returned, ret the
\* session id or session returned, if any
Call(op, m, ok, ret, times, price) ==
    Some([op |-> op, had |-> active_session, ok |-> ok, ret |-> ret, raised |-> m.exc,
     writes |-> m.writes, times |-> times, price |-> price, n |-> ncalls + 1,
     failed |-> (m.exc \/ m.swallowed > 0)])

\* CollectorService.start_session.  d1, d2: how far the clock has moved on at
\* the reads of end_session and of start_session; f: the failing write.
SvcStartSession(thought, market_state, screenshots, d1, d2, f) ==
    LET price == GetCurrentPrice(last_position_info, market_state)
        tEnd == clock + d1
        tStart == IF active_session = None THEN clock + d1 ELSE tEnd + d2
        r == StartSession(TheManager(f), thought, price, market_state, screenshots,
                          tEnd, tStart)
    IN  /\ last_market_state' = market_state /\ Collected(market_state)
        /\ Leave(r.m, IF r.m.exc /\ r.m.active = active_session THEN tEnd ELSE tStart,
                 IsSome(r.ret))
        /\ last' = Call("start_session", r.m, IsSome(r.ret), r.ret, <<tEnd, tStart>>, price)
        /\ UNCHANGED <<monitorVars, thoughtVars, gatewayVars, serviceVars, loopVars,
                   stopVars>>

\* SvcAddHold counting the call as an action whatever add_hold returned
SvcAddHold_CountsRejected(thought, market_state, screenshots, d1, f) ==
    /\ IF active_session = None
       THEN /\ Leave(TheManager(0), clock, TRUE)
            /\ last' = Call("add_hold", TheManager(0), FALSE, None, <<>>, 0)
            /\ UNCHANGED <<last_market_state, mt5_connected>>
       ELSE LET t == clock + d1
                r == AddHold(TheManager(f), thought, market_state, screenshots, t)
            IN  /\ last_market_state' = market_state /\ Collected(market_state)
                /\ Leave(r.m, t, TRUE)
                /\ last' = Call("add_hold", r.m, r.ret, None, <<t>>, 0)
    /\ UNCHANGED <<monitorVars, thoughtVars, gatewayVars, serviceVars, loopVars,
                   stopVars>>

\* CollectorService.add_hold
SvcAddHold(thought, market_state, screenshots, d1, f) ==
    /\ IF active_session = None
       THEN /\ Leave(TheManager(0), clock, FALSE)
            /\ last' = Call("add_hold", TheManager(0), FALSE, None, <<>>, 0)
            /\ UNCHANGED <<last_market_state, mt5_connected>>
       ELSE LET t == clock + d1
                r == AddHold(TheManager(f), thought, market_state, screenshots, t)
            IN  /\ last_market_state' = market_state /\ Collected(market_state)
                /\ Leave(r.m, t, r.ret)
                /\ last' = Call("add_hold", r.m, r.ret, None, <<t>>, 0)
    /\ UNCHANGED <<monitorVars, thoughtVars, gatewayVars, serviceVars, loopVars,
                   stopVars>>

\* SvcEndSession counting the call as an action whatever end_session returned
SvcEndSession_CountsRejected(action, thought, market_state, screenshots, d1, f) ==
    /\ IF active_session = None
       THEN /\ Leave(TheManager(0), clock, TRUE)
            /\ last' = Call("end_session", TheManager(0), FALSE, None, <<>>, 0)
            /\ UNCHANGED <<last_market_state, mt5_connected>>
       ELSE LET t == clock + d1
                price == GetCurrentPrice(last_position_info, market_state)
                r == EndSession(TheManager(f), action, thought, price, market_state,
                                screenshots, t)
            IN  /\ last_market_state' = market_state /\ Collected(market_state)
                /\ Leave(r.m, t, TRUE)
                /\ last' = Call("end_session", r.m, IsSome(r.ret), r.ret, <<t>>, price)
    /\ UNCHANGED <<monitorVars, thoughtVars, gatewayVars, serviceVars, loopVars,
                   stopVars>>

\* CollectorService.end_session
SvcEndSession(action, thought, market_state, screenshots, d1, f) ==
    /\ IF active_session = None
       THEN /\ Leave(TheManager(0), clock, FALSE)
            /\ last' = Call("end_session", TheManager(0), FALSE, None, <<>>, 0)
            /\ UNCHANGED <<last_market_state, mt5_connected>>
       ELSE LET t == clock + d1
                price == GetCurrentPrice(last_position_info, market_state)
                r == EndSession(TheManager(f), action, thought, price, market_state,
                                screenshots, t)
            IN  /\ last_market_state' = market_state /\ Collected(market_state)
                /\ Leave(r.m, t, IsSome(r.ret))
                /\ last' = Call("end_session", r.m, IsSome(r.ret), r.ret, <<t>>, price)
    /\ UNCHANGED <<monitorVars, thoughtVars, gatewayVars, serviceVars, loopVars,
                   stopVars>>

(***************************************************************************)
(* PositionMonitor.  A position snapshot is a function from the open       *)
(* tickets to their PositionInfo.                                          *)
(***************************************************************************)
Tickets == 1..MaxTicket
Profits == {-1, 0, 1}
PositionInfo(ticket, profit) ==
    [ticket |-> ticket, symbol |-> Symbol, price |-> ScenarioEntryPrice,
     profit |-> profit]
PositionSnapshots ==
    UNION {[T -> Profits] : T \in SUBSET Tickets}
Positions(ps) == [t \in DOMAIN ps |-> PositionInfo(t, ps[t])]

\* DetectAction taking the BUY detail from any open ticket
DetectAction_AnyCurrent(previous, current) ==
    LET new_tickets == DOMAIN current \ DOMAIN previous
        closed_tickets == DOMAIN previous \ DOMAIN current
    IN  IF new_tickets # {}
        THEN {[action |-> "BUY", position |-> Some(current[t])] : t \in DOMAIN current}
        ELSE IF closed_tickets # {}
        THEN {[action |-> IF previous[t].profit >= 0 THEN "SELL" ELSE "STOP_LOSS",
               position |-> Some(previous[t])] : t \in closed_tickets}
        ELSE {[action |-> "HOLD", position |-> None]}

\* DetectAction taking a close at profit zero for a loss
DetectAction_ZeroIsLoss(previous, current) ==
    LET new_tickets == DOMAIN current \ DOMAIN previous
        closed_tickets == DOMAIN previous \ DOMAIN current
    IN  IF new_tickets # {}
        THEN {[action |-> "BUY", position |-> Some(current[t])] : t \in new_tickets}
        ELSE IF closed_tickets # {}
        THEN {[action |-> IF previous[t].profit > 0 THEN "SELL" ELSE "STOP_LOSS",
               position |-> Some(previous[t])] : t \in closed_tickets}
        ELSE {[action |-> "HOLD", position |-> None]}

\* DetectAction taking a changed profit of a ticket that stays open for a close
DetectAction_ProfitChange(previous, current) ==
    LET new_tickets == DOMAIN current \ DOMAIN previous
        closed_tickets == DOMAIN previous \ DOMAIN current
        changed == {t \in DOMAIN previous \cap DOMAIN current :
                        previous[t] # current[t]}
    IN  IF new_tickets # {}
        THEN {[action |-> "BUY", position |-> Some(current[t])] : t \in new_tickets}
        ELSE IF closed_tickets \cup changed # {}
        THEN {[action |-> IF previous[t].profit >= 0 THEN "SELL" ELSE "STOP_LOSS",
               position |-> Some(previous[t])] : t \in closed_tickets \cup changed}
        ELSE {[action |-> "HOLD", position |-> None]}

\* DetectAction looking for closed tickets before new ones
DetectAction_ClosedFirst(previous, current) ==
    LET new_tickets == DOMAIN current \ DOMAIN previous
        closed_tickets == DOMAIN previous \ DOMAIN current
    IN  IF closed_tickets # {}
        THEN {[action |-> IF previous[t].profit >= 0 THEN "SELL" ELSE "STOP_LOSS",
               position |-> Some(previous[t])] : t \in closed_tickets}
        ELSE IF new_tickets # {}
        THEN {[action |-> "BUY", position |-> Some(current[t])] : t \in new_tickets}
        ELSE {[action |-> "HOLD", position |-> None]}

\* _detect_action: list(set)[0] takes whichever ticket the set yields first, so
\* the result is any of the set returned here
DetectAction(previous, current) ==
    LET new_tickets == DOMAIN current \ DOMAIN previous
        closed_tickets == DOMAIN previous \ DOMAIN current
    IN  IF new_tickets # {}
        THEN {[action |-> "BUY", position |-> Some(current[t])] : t \in new_tickets}
        ELSE IF closed_tickets # {}
        THEN {[action |-> IF previous[t].profit >= 0 THEN "SELL" ELSE "STOP_LOSS",
               position |-> Some(previous[t])] : t \in closed_tickets}
        ELSE {[action |-> "HOLD", position |-> None]}

\* a deque that grows without limit
DequeAppendN_Unbounded(q, x, maxlen) == Append(q, x)

\* deque(maxlen=maxlen).append: a full deque drops its leftmost item
DequeAppendN(q, x, maxlen) ==
    IF Len(q) < maxlen THEN Append(q, x) ELSE Append(Tail(q), x)

\* deque(maxlen=PendingMaxLen).append
DequeAppend(q, x) == DequeAppendN(q, x, PendingMaxLen)

\* PositionMonitor.start, the gateway connected
MonStart(current) ==
    /\ ~mon_running
    /\ npolls < MaxPolls
    /\ mt5_initialized' = TRUE
    /\ previous_positions' = current
    /\ mon_running' = TRUE
    /\ mon_thread' = TRUE
    /\ lastPoll' = None
    /\ UNCHANGED <<mon_last_action, mon_last_position_info, pending_actions,
                   action_log, npolls, sessionVars, thoughtVars, gatewayVars,
                   serviceVars, nfailures, ticks, lastIter, reported, missed,
                   stopVars, appVars, raceVars, capVars, lineVars>>
    /\ mt5_connected' = (mt5_initialized => mt5_connected)

\* PositionMonitor.stop
MonStop ==
    /\ mon_running
    /\ mon_running' = FALSE
    /\ mon_thread' = FALSE
    /\ mt5_initialized' = FALSE
    /\ UNCHANGED <<previous_positions, mon_last_action, mon_last_position_info,
                   pending_actions, action_log, npolls, lastPoll, sessionVars,
                   thoughtVars, gatewayVars, serviceVars, nfailures, ticks,
                   lastIter, reported, missed,
                   stopVars, appVars, raceVars, capVars, lineVars>>
    /\ mt5_connected' = (mt5_connected /\ ~mt5_initialized)

\* one iteration of _poll_loop with no exception, CollectorService.
\* _on_action_detected being the callback; d: how far the clock has moved on
Poll(current, d) ==
    /\ mon_running
    /\ npolls < MaxPolls
    /\ \E r \in DetectAction(previous_positions, current) :
        /\ mon_last_action' = Some(r.action)
        /\ mon_last_position_info' = r.position
        /\ lastPoll' = Some([previous |-> previous_positions, current |-> current,
                             action |-> r.action, position |-> r.position,
                             n |-> npolls + 1])
        /\ IF r.action # "HOLD"
           THEN /\ d > 0
                /\ clock' = clock + d
                /\ action_log' = Append(action_log,
                       [timestamp |-> Isoformat(clock'), action |-> r.action,
                        position |-> r.position])
                /\ pending_actions' = DequeAppend(pending_actions,
                       [action |-> r.action, timestamp |-> clock', thought |-> None])
                /\ actions_count' = actions_count + 1
                /\ last_action_at' = Some(clock')
           ELSE /\ d = 0
                /\ UNCHANGED <<clock, action_log, pending_actions, actions_count,
                               last_action_at>>
    /\ previous_positions' = current
    /\ npolls' = npolls + 1
    /\ UNCHANGED <<mon_running, active_session, active_session_dir, disk, snapshots,
                   last_market_state, last_position_info, ncalls, last, thoughtVars,
                   gatewayVars, serviceVars, loopVars,
                   stopVars, appVars, raceVars, capVars, lineVars, connVars>>

(***************************************************************************)
(* ThoughtManager and the two callbacks of CollectorService.               *)
(***************************************************************************)
\* the entries of q that wait for a thought on the action
Unresolved(q, action) ==
    {i \in 1..Len(q) : q[i].action = action /\ q[i].thought = None}

\* the loop of submit_thought with every matching entry set
SetPending_NoBreak(q, thought_text, action) ==
    [i \in 1..Len(q) |->
        IF i \in Unresolved(q, action)
        THEN [q[i] EXCEPT !.thought = Some(thought_text)] ELSE q[i]]

\* the loop of submit_thought: the first entry of the action that has no
\* thought takes the text, and the loop breaks
SetPending(q, thought_text, action) ==
    IF Unresolved(q, action) = {} THEN q
    ELSE LET i == CHOOSE k \in Unresolved(q, action) :
                      \A j \in Unresolved(q, action) : k <= j
         IN  [q EXCEPT ![i].thought = Some(thought_text)]

\* CollectorService._on_action_detected called by itself, the clock d ticks on
OnActionDetected(action, position_info, d) ==
    /\ d > 0
    /\ clock' = clock + d
    /\ action_log' = Append(action_log,
           [timestamp |-> Isoformat(clock'), action |-> action,
            position |-> position_info])
    /\ IF action # "HOLD"
       THEN /\ pending_actions' = DequeAppend(pending_actions,
                   [action |-> action, timestamp |-> clock', thought |-> None])
            /\ actions_count' = actions_count + 1
            /\ last_action_at' = Some(clock')
       ELSE UNCHANGED <<pending_actions, actions_count, last_action_at>>
    /\ ndetect' = ndetect + 1
    /\ UNCHANGED <<active_session, active_session_dir, disk, snapshots,
                   last_market_state, last_position_info, ncalls, last,
                   previous_positions, mon_last_action, mon_last_position_info,
                   mon_running, npolls, lastPoll, thoughts, thought_files,
                   data_points, training_files, nsubmit, lastSubmit, gatewayVars,
                   serviceVars, loopVars, stopVars, appVars, raceVars, capVars, lineVars, connVars>>

\* ThoughtInput(thought, action, timestamp)
ThoughtInput(thought_text, action, timestamp) ==
    [thought |-> thought_text, action |-> action, timestamp |-> Some(timestamp)]

\* CollectorService.submit_thought: ThoughtManager.submit_thought, which
\* stores the thought and calls _on_thought_received, which links it
SvcSubmitThought(thought_text, action, d) ==
    LET now == clock + d
        thought == ThoughtInput(thought_text, action, now)
        name == <<Strftime(now), action>>
    IN  /\ clock' = now
        /\ pending_actions' = SetPending(pending_actions, thought_text, action)
        /\ thoughts' = Append(thoughts, thought)
        /\ thought_files' = (name :> [thought |-> thought_text, action |-> action,
                                      timestamp |-> Isoformat(now)]) @@ thought_files
        /\ data_points' = Append(data_points,
               [timestamp |-> now, screenshot_path |-> "", action |-> action,
                thought |-> Some(thought_text), position_info |-> None,
                market_state |-> last_market_state])
        /\ training_files' = (name :> [timestamp |-> Isoformat(now),
                                       screenshot_path |-> "", action |-> action,
                                       thought |-> Some(thought_text)])
                             @@ training_files
        /\ nsubmit' = nsubmit + 1
        /\ lastSubmit' = Some([thought |-> thought_text, action |-> action,
                               ret |-> Some(thought), raised |-> FALSE,
                               callbacks |-> 1, n |-> nsubmit + 1])
        /\ UNCHANGED <<active_session, active_session_dir, disk, snapshots,
                       actions_count, last_action_at, last_market_state,
                       last_position_info, ncalls, last, previous_positions,
                       mon_last_action, mon_last_position_info, mon_running,
                       action_log, npolls, lastPoll, ndetect, gatewayVars,
                       serviceVars, loopVars, stopVars, appVars>>

(***************************************************************************)
(* The broker behind the terminal, and the collector run against it.       *)
(***************************************************************************)
BrokerOpen(t, p) ==
    /\ t \notin DOMAIN broker /\ t \notin closed
    /\ broker' = (t :> p) @@ broker
    /\ UNCHANGED <<closed, mt5_up, noutages, sessionVars, monitorVars, thoughtVars,
                   serviceVars, loopVars, stopVars, appVars, raceVars, capVars, lineVars, connVars>>
BrokerClose(t) ==
    /\ t \in DOMAIN broker
    /\ broker' = [u \in DOMAIN broker \ {t} |-> broker[u]]
    /\ closed' = closed \cup {t}
    /\ UNCHANGED <<mt5_up, noutages, sessionVars, monitorVars, thoughtVars,
                   serviceVars, loopVars, stopVars, appVars, raceVars, capVars, lineVars, connVars>>
BrokerProfit(t, p) ==
    /\ t \in DOMAIN broker /\ broker[t] # p
    /\ broker' = [broker EXCEPT ![t] = p]
    /\ UNCHANGED <<closed, mt5_up, noutages, sessionVars, monitorVars, thoughtVars,
                   serviceVars, loopVars, stopVars, appVars, raceVars, capVars, lineVars, connVars>>
\* the terminal stops answering, and answers again
GatewayDown ==
    /\ mt5_up /\ noutages < MaxOutages
    /\ mt5_up' = FALSE
    /\ noutages' = noutages + 1
    /\ UNCHANGED <<broker, closed, sessionVars, monitorVars, thoughtVars,
                   serviceVars, loopVars, stopVars, appVars, raceVars, capVars, lineVars, connVars>>
GatewayUp ==
    /\ ~mt5_up
    /\ mt5_up' = TRUE
    /\ UNCHANGED <<broker, closed, noutages, sessionVars, monitorVars, thoughtVars,
                   serviceVars, loopVars, stopVars, appVars, raceVars, capVars, lineVars, connVars>>

\* _get_current_positions: positions_get gives None when the terminal does
\* not answer or the process has no connection to it, and None is taken for
\* no position
PositionsGet(connected) == IF mt5_up /\ connected THEN Positions(broker) ELSE <<>>
GetCurrentPositions == PositionsGet(mt5_connected)

\* what a detection tells of: a ticket opened or a ticket closed
EventOf(r) ==
    <<IF r.action = "BUY" THEN "open" ELSE "close", Val(r.position).ticket>>
Changes(previous, current) ==
    {<<"open", t>> : t \in DOMAIN current \ DOMAIN previous}
    \cup {<<"close", t>> : t \in DOMAIN previous \ DOMAIN current}

\* the callback called on every poll
CallbackDue_Always(action) == TRUE

\* _poll_loop calls the callback for every action but HOLD
CallbackDue(action) == action # "HOLD"

\* no except clause: whatever is raised ends the loop thread
Caught_Nothing(fail) == FALSE

\* except Exception: whatever the iteration raised is caught and logged
Caught(fail) == TRUE

\* one iteration of _poll_loop, CollectorService._on_action_detected being
\* the callback.  fail: where the iteration raises -
\*   "none"        nowhere
\*   "gateway"     in _get_current_positions, before anything is compared
\*   "save"        in the callback, when log_action writes the action log
\*   "subscriber"  in the callback, in the external callback it calls last
\* The except clause logs whatever was raised and the loop sleeps.
IterationOn(current, fail) ==
    /\ ticks' = 1 - ticks
    /\ nfailures' = IF fail = "none" THEN nfailures ELSE nfailures + 1
    /\ IF fail = "gateway"
       THEN /\ lastIter' = Some([up |-> mt5_up, fail |-> fail, action |-> None])
            /\ UNCHANGED <<sessionVars, monitorVars, reported, missed>>
       ELSE     \E r \in DetectAction(previous_positions, current) :
                  /\ mon_last_action' = Some(r.action)
                  /\ mon_last_position_info' = r.position
                  /\ lastPoll' = Some([previous |-> previous_positions,
                                       current |-> current, action |-> r.action,
                                       position |-> r.position, n |-> 0])
                  /\ lastIter' = Some([up |-> mt5_up, fail |-> fail,
                                       action |-> Some(r.action)])
                  /\ IF ~CallbackDue(r.action)
                     THEN /\ fail = "none"
                          /\ UNCHANGED <<clock, action_log, pending_actions,
                                         actions_count, last_action_at, reported>>
                     ELSE /\ clock' = clock + SubPerSec
                          /\ action_log' = Append(action_log,
                                 [timestamp |-> Isoformat(clock'),
                                  action |-> r.action, position |-> r.position])
                          /\ IF fail = "save" \/ r.action = "HOLD"
                             THEN UNCHANGED <<pending_actions, actions_count,
                                              last_action_at>>
                             ELSE /\ pending_actions' = DequeAppend(pending_actions,
                                         [action |-> r.action, timestamp |-> clock',
                                          thought |-> None])
                                  /\ actions_count' = actions_count + 1
                                  /\ last_action_at' = Some(clock')
                          /\ reported' = reported \cup
                                (IF r.action = "HOLD" THEN {} ELSE {EventOf(r)})
                  /\ IF fail = "none"
                     THEN /\ previous_positions' = current
                          /\ missed' = missed \cup
                                (Changes(previous_positions, current)
                                   \ (IF r.action = "HOLD" THEN {} ELSE {EventOf(r)}))
                     ELSE UNCHANGED <<previous_positions, missed>>
                  /\ UNCHANGED <<mon_running, npolls, active_session,
                                 active_session_dir, disk, snapshots,
                                 last_market_state, last_position_info, ncalls, last>>
    /\ UNCHANGED <<thoughtVars, gatewayVars, serviceVars, mt5_initialized, stops, appVars, raceVars, capVars, lineVars, connVars>>

\* an iteration that calls _get_current_positions as it begins
Iteration(fail) == IterationOn(GetCurrentPositions, fail)

\* an iteration of the loop thread start() made last, the monitor running
LoopIter(fail) ==
    /\ mon_running /\ mon_thread
    /\ Iteration(fail)
    /\ mon_thread' = (fail = "none" \/ Caught(fail))
    /\ UNCHANGED late_thread

\* the end of the iteration a thread was in when stop() gave up joining it:
\* the thread then tests _running and is gone, unless start() has set it again.
\* It called positions_get before stop() shut the connection down, or after
LateIter ==
    /\ late_thread
    /\ \E connected \in {TRUE, mt5_connected} :
          IterationOn(PositionsGet(connected), "none")
    /\ late_thread' = mon_running
    /\ UNCHANGED mon_thread

\* PositionMonitor.start returning True whatever initialize() says
MonitorStartRet_Always == TRUE

\* what PositionMonitor.start returns: True if it runs already, else what
\* _initialize_mt5 returns
MonitorStartRet == mon_running \/ mt5_initialized \/ mt5_up

\* the record of a start call: seq tells two calls in a row apart, prev_ret
\* is what the call before it returned, open the tickets that were open at
\* the broker when the monitor was last started
StartCall(was_running, monitor_ret, ret) ==
    Some([up |-> mt5_up, was_running |-> was_running, monitor_ret |-> monitor_ret,
          ret |-> ret,
          open |-> IF ~was_running /\ ret /\ ~mon_running THEN DOMAIN broker
                   ELSE IF IsSome(lastStart) THEN Val(lastStart).open ELSE {},
          prev_ret |-> IF IsSome(lastStart) THEN Some(Val(lastStart).ret) ELSE None,
          seq |-> IF IsSome(lastStart) THEN 1 - Val(lastStart).seq ELSE 0])

\* CollectorService.start, PositionMonitor.start within it
CollectorStart ==
    /\ IF svc_running
       THEN /\ lastStart' = StartCall(TRUE, None, TRUE)
            /\ UNCHANGED <<previous_positions, mon_running, mon_thread,
                           mt5_initialized, lastPoll, svc_running, shot_thread,
                           status_is_running, started_at, mt5_connected>>
       ELSE /\ lastStart' = StartCall(FALSE, Some(MonitorStartRet), MonitorStartRet)
            /\ IF mon_running \/ ~MonitorStartRet
               THEN UNCHANGED <<previous_positions, mon_running, mon_thread,
                                mt5_initialized, lastPoll, mt5_connected>>
               ELSE /\ mt5_initialized' = TRUE
                    /\ mt5_connected' = (mt5_initialized => mt5_connected)
                    /\ previous_positions' = PositionsGet(mt5_connected')
                    /\ mon_running' = TRUE
                    /\ mon_thread' = TRUE
                    /\ lastPoll' = None
            /\ IF MonitorStartRet
               THEN /\ svc_running' = TRUE
                    /\ shot_thread' = TRUE
                    /\ status_is_running' = TRUE
                    /\ started_at' = Some(clock)
               ELSE UNCHANGED <<svc_running, shot_thread, status_is_running,
                                started_at>>
    /\ UNCHANGED <<sessionVars, mon_last_action, mon_last_position_info,
                   pending_actions, action_log, npolls, thoughtVars, gatewayVars,
                   nfailures, ticks, lastIter, reported, missed,
                   stopVars, appVars, raceVars, capVars, lineVars>>

\* CollectorService.stop, PositionMonitor.stop within it.  joined: the poll
\* thread left its loop within the 5 seconds join() waits; if not, stop()
\* drops its reference to the thread and goes on
StopJoin(joined) ==
    /\ svc_running' = FALSE
    /\ mon_running' = FALSE
    /\ mon_thread' = FALSE
    /\ late_thread' = (late_thread \/ (mon_thread /\ ~joined))
    /\ mt5_initialized' = FALSE
    /\ shot_thread' = FALSE
    /\ status_is_running' = FALSE
    /\ stops' = 1 - stops
    /\ UNCHANGED <<sessionVars, previous_positions, mon_last_action,
                   mon_last_position_info, pending_actions, action_log, npolls,
                   lastPoll, thoughtVars, gatewayVars, started_at, lastStart,
                   nfailures, ticks, lastIter, reported, missed, appVars, raceVars, capVars, lineVars>>
    /\ mt5_connected' = (mt5_connected /\ ~mt5_initialized)

\* a stop() that empties the active slot of the session manager as well
CollectorStop_DropsSession ==
    /\ svc_running' = FALSE
    /\ mon_running' = FALSE
    /\ mon_thread' = FALSE
    /\ mt5_initialized' = FALSE
    /\ shot_thread' = FALSE
    /\ status_is_running' = FALSE
    /\ stops' = 1 - stops
    /\ mt5_connected' = (mt5_connected /\ ~mt5_initialized)
    /\ active_session' = None
    /\ active_session_dir' = None
    /\ UNCHANGED <<clock, disk, snapshots, actions_count, last_action_at,
                   last_market_state, last_position_info, ncalls, last,
                   previous_positions, mon_last_action, mon_last_position_info,
                   pending_actions, action_log, npolls, lastPoll, thoughtVars,
                   gatewayVars, started_at, lastStart, nfailures, ticks, lastIter,
                   reported, missed, late_thread, appVars, raceVars, capVars,
                   lineVars>>

\* stop(), every iteration short enough for the thread to be joined
CollectorStop == StopJoin(TRUE)

(***************************************************************************)
(* app.py: the session endpoints.  A handler is a coroutine of the one     *)
(* event loop: it runs from one await to the next without another handler  *)
(* running in between.                                                     *)
(***************************************************************************)
\* a request as it is received: nothing tested, nothing answered.  others is
\* the number of requests waiting when the handler ran its verb
Request(verb, action) ==
    [verb |-> verb, action |-> action, pc |-> "received", checked |-> None,
     found |-> None, status |-> 0, detail |-> "", others |-> 0]

\* a handler that gives the event loop back between its test and its verb
AwaitsBeforeVerb_Yields(verb) == TRUE

\* whether the handler of a verb awaits between its test of
\* has_active_session() and its call of the verb: none of the three does
AwaitsBeforeVerb(verb) == FALSE

\* a start answered as rejected while no session is active either
PreconditionViolated_StartNever(verb, has) == IF verb = "start" THEN TRUE ELSE ~has

\* the test each endpoint makes first
PreconditionViolated(verb, has) == IF verb = "start" THEN has ELSE ~has

\* the detail of the HTTPException(400) the test raises
RejectionDetail(verb) ==
    IF verb = "start"
    THEN "Active session exists. End it before starting a new one."
    ELSE "No active session"

\* an endpoint that takes any member of Action as an exit
ValidExit_Any(action) == TRUE

\* Action(request.action) in [Action.SELL, Action.STOP_LOSS]
ValidExit(action) == action \in {"SELL", "STOP_LOSS"}

\* a request arrives
AppReceive(verb, action) ==
    /\ Len(handlers) < MaxRequests
    /\ handlers' = Append(handlers, Request(verb, action))
    /\ UNCHANGED <<sessionVars, monitorVars, thoughtVars, gatewayVars, serviceVars,
                   loopVars, stopVars, raceVars, capVars, lineVars, connVars>>

\* the event loop runs handler i up to its next await, or to its end
AppRun(i, thought, market_state, d1) ==
    LET h == handlers[i]
        has == IsSome(active_session)
        others == Cardinality({j \in DOMAIN handlers :
                                  j # i /\ handlers[j].pc \in {"received", "checked"}})
        Frame == UNCHANGED <<sessionVars, monitorVars, thoughtVars, gatewayVars,
                             serviceVars, loopVars, stopVars, raceVars, capVars, lineVars, connVars>>
    IN  /\ h.pc \in {"received", "checked"}
        /\ IF h.pc = "received" /\ PreconditionViolated(h.verb, has)
           THEN /\ handlers' = [handlers EXCEPT ![i] =
                      [h EXCEPT !.pc = "done", !.checked = Some(has), !.status = 400,
                                !.detail = RejectionDetail(h.verb)]]
                /\ Frame
           ELSE IF h.pc = "received" /\ AwaitsBeforeVerb(h.verb)
           THEN /\ handlers' = [handlers EXCEPT ![i] =
                      [h EXCEPT !.pc = "checked", !.checked = Some(has)]]
                /\ Frame
           ELSE IF h.verb = "end" /\ ~ValidExit(h.action)
           THEN /\ handlers' = [handlers EXCEPT ![i] =
                      [h EXCEPT !.pc = "done", !.checked = Some(has), !.status = 400,
                                !.detail = "Invalid action"]]
                /\ Frame
           ELSE /\ CASE h.verb = "start" ->
                           SvcStartSession(thought, market_state, {}, d1, 0, 0)
                     [] h.verb = "hold" ->
                           SvcAddHold(thought, market_state, {}, d1, 0)
                     [] h.verb = "end" ->
                           SvcEndSession(h.action, thought, market_state, {}, d1, 0)
                /\ handlers' = [handlers EXCEPT ![i] =
                      [h EXCEPT !.pc = IF Val(last').ok THEN "notifying" ELSE "done",
                                !.checked = IF h.pc = "received" THEN Some(has) ELSE @,
                                !.found = Some(has),
                                !.status = IF Val(last').ok THEN 200 ELSE 500,
                                !.detail = IF Val(last').ok THEN "" ELSE "Failed",
                                !.others = others]]
                /\ UNCHANGED <<raceVars, capVars, lineVars>>

\* await notify_clients(...) returns and the handler answers
AppNotify(i) ==
    /\ handlers[i].pc = "notifying"
    /\ handlers' = [handlers EXCEPT ![i].pc = "done"]
    /\ UNCHANGED <<sessionVars, monitorVars, thoughtVars, gatewayVars, serviceVars,
                   loopVars, stopVars, raceVars, capVars, lineVars, connVars>>

(***************************************************************************)
(* The poll thread and the request thread on the state they share.  No     *)
(* lock is taken anywhere, so a thread can be switched out between any two *)
(* accesses: actions_count += 1 is a read and a write, and a for loop over *)
(* the deque is a sequence of next() calls on its iterator.                *)
(***************************************************************************)
\* what a thread holds between the read and the write of actions_count += 1
Loaded(count, timestamp) == Some([count |-> count, timestamp |-> timestamp])

\* _on_action_detected in the poll thread, a non-HOLD action, up to its read
\* of actions_count: the action is logged and enqueued
RacePollLoad(action) ==
    /\ reg_poll = None
    /\ clock' = clock + 1
    /\ action_log' = Append(action_log,
           [timestamp |-> Isoformat(clock'), action |-> action, position |-> None])
    /\ pending_actions' = DequeAppend(pending_actions,
           [action |-> action, timestamp |-> clock', thought |-> None])
    /\ ndetect' = ndetect + 1
    /\ reg_poll' = Loaded(actions_count, clock')
    /\ UNCHANGED <<active_session, active_session_dir, disk, snapshots,
                   actions_count, last_action_at, last_market_state,
                   last_position_info, ncalls, last, previous_positions,
                   mon_last_action, mon_last_position_info, mon_running, npolls,
                   lastPoll, thoughts, thought_files, data_points, training_files,
                   nsubmit, lastSubmit, gatewayVars, serviceVars, loopVars, stopVars,
                   appVars, reg_req, scan, increments, capVars, lineVars, connVars>>

\* the poll thread writes actions_count and last_action_at
RacePollStore ==
    /\ reg_poll # None
    /\ actions_count' = Val(reg_poll).count + 1
    /\ last_action_at' = Some(Val(reg_poll).timestamp)
    /\ reg_poll' = None
    /\ increments' = increments + 1
    /\ UNCHANGED <<clock, active_session, active_session_dir, disk, snapshots,
                   last_market_state, last_position_info, ncalls, last, monitorVars,
                   thoughtVars, gatewayVars, serviceVars, loopVars, stopVars, appVars,
                   reg_req, scan, capVars, lineVars, connVars>>

\* a session verb in the request thread - start_session with no session
\* active, add_hold with one - up to its read of actions_count
RaceVerbLoad(thought, market_state, d1) ==
    LET t == clock + d1
        price == GetCurrentPrice(last_position_info, market_state)
        m == IF active_session = None
             THEN StartSession(TheManager(0), thought, price, market_state, {}, t, t).m
             ELSE AddHold(TheManager(0), thought, market_state, {}, t).m
    IN  /\ reg_req = None /\ scan = None
        /\ active_session' = m.active
        /\ active_session_dir' = m.dir
        /\ disk' = m.disk
        /\ snapshots' = m.snaps
        /\ clock' = t
        /\ last_market_state' = market_state /\ Collected(market_state)
        /\ ncalls' = ncalls + 1
        /\ reg_req' = Loaded(actions_count, t)
        /\ UNCHANGED <<actions_count, last_action_at, last_position_info, last,
                       monitorVars, thoughtVars, gatewayVars, serviceVars, loopVars,
                       stopVars, appVars, reg_poll, scan, increments, capVars, lineVars>>

\* the request thread writes actions_count and last_action_at
RaceVerbStore ==
    /\ reg_req # None
    /\ actions_count' = Val(reg_req).count + 1
    /\ last_action_at' = Some(clock)
    /\ reg_req' = None
    /\ increments' = increments + 1
    /\ UNCHANGED <<clock, active_session, active_session_dir, disk, snapshots,
                   last_market_state, last_position_info, ncalls, last, monitorVars,
                   thoughtVars, gatewayVars, serviceVars, loopVars, stopVars, appVars,
                   reg_poll, scan, capVars, lineVars, connVars>>

\* ThoughtManager.submit_thought in the request thread: iter(self._pending_actions).
\* q0 is the deque as the iterator found it
RaceScanBegin(thought_text, action) ==
    /\ reg_req = None /\ scan = None
    /\ scan' = Some([thought |-> thought_text, action |-> action, pos |-> 1,
                     q0 |-> pending_actions])
    /\ UNCHANGED <<sessionVars, monitorVars, thoughtVars, gatewayVars, serviceVars,
                   loopVars, stopVars, appVars, reg_poll, reg_req, increments,
                   capVars, lineVars, connVars>>

\* next() on the iterator: RuntimeError("deque mutated during iteration") if
\* the deque was appended to since iter(), and submit_thought raises; at a
\* waiting entry of the action, or at the end, the rest of submit_thought
RaceScanNext ==
    /\ scan # None
    /\ LET sc == Val(scan)
       IN  IF pending_actions # sc.q0
           THEN /\ scan' = None
                /\ nsubmit' = nsubmit + 1
                /\ lastSubmit' = Some([thought |-> sc.thought, action |-> sc.action,
                                       ret |-> None, raised |-> TRUE, callbacks |-> 0,
                                       n |-> nsubmit + 1])
                /\ UNCHANGED <<sessionVars, monitorVars, thoughts, thought_files,
                               data_points, training_files, ndetect, gatewayVars,
                               serviceVars, loopVars, stopVars, appVars>>
           ELSE IF sc.pos <= Len(pending_actions)
                   /\ ~(pending_actions[sc.pos].action = sc.action
                        /\ pending_actions[sc.pos].thought = None)
           THEN /\ scan' = Some([sc EXCEPT !.pos = @ + 1])
                /\ UNCHANGED <<sessionVars, monitorVars, thoughtVars, gatewayVars,
                               serviceVars, loopVars, stopVars, appVars>>
           ELSE /\ scan' = None
                /\ SvcSubmitThought(sc.thought, sc.action, 1)
    /\ UNCHANGED <<reg_poll, reg_req, increments, capVars, lineVars, connVars>>

(***************************************************************************)
(* collector/horizontal_lines.py.  A line is [name, price, color]; a name  *)
(* is the sequence of its parts, so that "_copied_" in name is a test on   *)
(* the parts; a price is in thousandths.                                   *)
(***************************************************************************)
LineNames == {<<"support">>, <<"resist">>, <<"support", "_copied_", "H4">>}
LinePrices == {2850120, 2850124, 2850126}
Lines == [name : LineNames, price : LinePrices, color : {"#FF0000"}]

\* "_copied_" in name
IsCopied(name) == \E i \in DOMAIN name : name[i] = "_copied_"

\* round(price, 2) of a price held in thousandths, in hundredths
PriceKey(price) == RoundDiv(price, 10)

\* the loop with a copied line taking its price as well
RECURSIVE FilterLines_CopiedReserves(_, _)
FilterLines_CopiedReserves(lines, seen_prices) ==
    IF lines = <<>> THEN <<>>
    ELSE LET line == Head(lines)
             price_key == PriceKey(line.price)
         IN  IF IsCopied(line.name) \/ price_key \in seen_prices
             THEN FilterLines_CopiedReserves(Tail(lines), seen_prices \cup {price_key})
             ELSE <<line>> \o FilterLines_CopiedReserves(Tail(lines),
                                                        seen_prices \cup {price_key})

\* the loop of read_raw and of read_lines over data["lines"]
RECURSIVE FilterLines(_, _)
FilterLines(lines, seen_prices) ==
    IF lines = <<>> THEN <<>>
    ELSE LET line == Head(lines)
             price_key == PriceKey(line.price)
         IN  IF IsCopied(line.name) THEN FilterLines(Tail(lines), seen_prices)
             ELSE IF price_key \in seen_prices
             THEN FilterLines(Tail(lines), seen_prices)
             ELSE <<line>> \o FilterLines(Tail(lines), seen_prices \cup {price_key})

\* read_raw: data["lines"] filtered
ReadRaw(lines) == FilterLines(lines, {})

\* the terminal exports its lines
ExportLines(lines) ==
    /\ lines_file' = lines
    /\ UNCHANGED <<sessionVars, monitorVars, thoughtVars, gatewayVars, serviceVars,
                   loopVars, stopVars, appVars, raceVars, capVars, lines_read, connVars>>

\* GET /api/horizontal-lines, or a snapshot being saved: read_raw()
ReadRawLines ==
    /\ lines_read' = Some([file |-> lines_file, lines |-> ReadRaw(lines_file)])
    /\ UNCHANGED <<sessionVars, monitorVars, thoughtVars, gatewayVars, serviceVars,
                   loopVars, stopVars, appVars, raceVars, capVars, lines_file, connVars>>

\* what was read is exported and read again
RereadLines ==
    /\ lines_read # None
    /\ lines_file' = Val(lines_read).lines
    /\ lines_read' = Some([file |-> lines_file', lines |-> ReadRaw(lines_file')])
    /\ UNCHANGED <<sessionVars, monitorVars, thoughtVars, gatewayVars, serviceVars,
                   loopVars, stopVars, appVars, raceVars, capVars, connVars>>

(***************************************************************************)
(* Inputs.                                                                 *)
(***************************************************************************)
Thoughts == {"still waiting", "trend intact"}
\* collect_all_timeframes: None, or a state whose M1 bars end at a close
MarketState(close) == Some([m1 |-> Some(close)])
MarketStates == {None, MarketState(ScenarioEntryPrice), MarketState(ScenarioExitPrice)}
\* clock advances between two verbs: none, a tick short of a minute, 47 minutes
Deltas == {0, 60 * SubPerSec - 1, 47 * 60 * SubPerSec}
\* between the two clock reads of one start_session
InnerDeltas == {0, 1}
ExitActions == {"SELL", "STOP_LOSS"}

(***************************************************************************)
(* The collaborators of a session verb: the two screen captures and the    *)
(* market data collector.  An outcome is how the collaborator fared.       *)
(***************************************************************************)
CaptureOutcomes == {"ok", "timeout", "failed"}
AllTimeframes == {Timeframes[i] : i \in DOMAIN Timeframes}

\* MQL5ScreenCapture.capture_all_timeframes: no request file written, or no
\* completion within the timeout, gives {}
Mql5Capture(outcome) == IF outcome = "ok" THEN AllTimeframes ELSE {}

\* MultiTimeframeCapture.capture_all_timeframes: window not found and the
\* single capture failed, or every timeframe failed, gives {}
WindowsCapture(outcome) == IF outcome = "ok" THEN AllTimeframes ELSE {}

\* a capture whose failure is passed on as no result at all
CaptureAllTimeframes_Raises(mql5, windows) ==
    IF mql5 = "ok" THEN Some(AllTimeframes)
    ELSE IF windows = "ok" THEN Some(AllTimeframes)
    ELSE None

\* CollectorService._capture_all_timeframes: the MQL5 capture, and the
\* Windows capture when that returned nothing.  None stands for an exception.
CaptureAllTimeframes(mql5, windows) ==
    IF Mql5Capture(mql5) # {} THEN Some(Mql5Capture(mql5))
    ELSE Some(WindowsCapture(windows))

\* MarketDataCollector.collect_all_timeframes: None when the terminal cannot
\* be initialized or an exception is caught
CollectAllTimeframes(reachable, close) ==
    IF reachable THEN MarketState(close) ELSE None

\* one iteration of _screenshot_loop.  shot: capture_mt5 returned a path;
\* d: how far the clock has moved on.  The market state is collected, which
\* ends with shutdown(), and kept if there is one; while the last action of
\* the monitor is HOLD the screenshot is linked as a data point.  The
\* screenshot counters of the status are not part of the state.
ScreenshotLoopIter(shot, d) ==
    LET market_state == CollectAllTimeframes(mt5_up, ScenarioEntryPrice)
        last_action == IF IsSome(mon_last_action) THEN Val(mon_last_action) ELSE "HOLD"
        now == clock + d
        name == <<Strftime(now), "HOLD">>
    IN  /\ svc_running /\ shot_thread
        /\ last_market_state' = IF IsSome(market_state) THEN market_state
                                ELSE last_market_state
        /\ Collected(market_state)
        /\ IF last_action = "HOLD" /\ shot
           THEN /\ clock' = now
                /\ data_points' = Append(data_points,
                       [timestamp |-> now, screenshot_path |-> "mt5.png",
                        action |-> "HOLD", thought |-> None, position_info |-> None,
                        market_state |-> market_state])
                /\ training_files' = (name :> [timestamp |-> Isoformat(now),
                                               screenshot_path |-> "mt5.png",
                                               action |-> "HOLD", thought |-> None])
                                     @@ training_files
           ELSE UNCHANGED <<clock, data_points, training_files>>
        /\ UNCHANGED <<active_session, active_session_dir, disk, snapshots,
                       actions_count, last_action_at, last_position_info, ncalls,
                       last, monitorVars, thoughts, thought_files, ndetect, nsubmit,
                       lastSubmit, gatewayVars, serviceVars, loopVars, stopVars,
                       appVars, raceVars, capVars, lineVars>>

Init ==
    /\ clock = 0
    /\ active_session = None
    /\ active_session_dir = None
    /\ disk = <<>>
    /\ snapshots = <<>>
    /\ actions_count = 0
    /\ last_action_at = None
    /\ last_market_state = None
    /\ last_position_info = None
    /\ ncalls = 0
    /\ last = None
    /\ previous_positions = <<>>
    /\ mon_last_action = None
    /\ mon_last_position_info = None
    /\ mon_running = FALSE
    /\ pending_actions = <<>>
    /\ action_log = <<>>
    /\ npolls = 0
    /\ lastPoll = None
    /\ thoughts = <<>>
    /\ thought_files = <<>>
    /\ data_points = <<>>
    /\ training_files = <<>>
    /\ ndetect = 0
    /\ nsubmit = 0
    /\ lastSubmit = None
    /\ broker = <<>>
    /\ closed = {}
    /\ mt5_up = TRUE
    /\ mt5_initialized = FALSE
    /\ mon_thread = FALSE
    /\ svc_running = FALSE
    /\ shot_thread = FALSE
    /\ status_is_running = FALSE
    /\ started_at = None
    /\ noutages = 0
    /\ nfailures = 0
    /\ ticks = 0
    /\ lastIter = None
    /\ lastStart = None
    /\ reported = {}
    /\ missed = {}
    /\ late_thread = FALSE
    /\ stops = 0
    /\ handlers = <<>>
    /\ reg_poll = None
    /\ reg_req = None
    /\ scan = None
    /\ increments = 0
    /\ lastCapture = None
    /\ lines_file = <<>>
    /\ lines_read = None
    /\ mt5_connected = FALSE

\* the session verbs, storage never failing
StartSessionStep ==
    /\ ncalls < MaxCalls
    /\ \E ms \in MarketStates, d1 \in Deltas, d2 \in InnerDeltas :
          SvcStartSession("oversold", ms, {}, d1, d2, 0)
    /\ UNCHANGED <<appVars, raceVars, capVars, lineVars>>
AddHoldStep ==
    /\ ncalls < MaxCalls
    /\ \E th \in Thoughts, ms \in MarketStates, d1 \in Deltas :
          SvcAddHold(th, ms, {}, d1, 0)
    /\ UNCHANGED <<appVars, raceVars, capVars, lineVars>>
EndSessionStep ==
    /\ ncalls < MaxCalls
    /\ \E a \in ExitActions, ms \in MarketStates, d1 \in Deltas :
          SvcEndSession(a, "target hit", ms, {}, d1, 0)
    /\ UNCHANGED <<appVars, raceVars, capVars, lineVars>>

NextSession == StartSessionStep \/ AddHoldStep \/ EndSessionStep
SpecSession == Init /\ [][NextSession]_vars

\* the position monitor
MonStartStep == \E ps \in PositionSnapshots : MonStart(Positions(ps))
PollStep == \E ps \in PositionSnapshots, d \in {0, SubPerSec} : Poll(Positions(ps), d)

NextMonitor == MonStartStep \/ MonStop \/ PollStep
SpecMonitor == Init /\ [][NextMonitor]_vars

\* whole lifecycles: more calls, the market state always there
LcStartSessionStep ==
    /\ ncalls < MaxLifecycleCalls
    /\ \E d1 \in {0, 60 * SubPerSec - 1} :
          SvcStartSession("oversold", MarketState(ScenarioEntryPrice), {}, d1, 0, 0)
    /\ UNCHANGED <<appVars, raceVars, capVars, lineVars>>
LcAddHoldStep ==
    /\ ncalls < MaxLifecycleCalls
    /\ \E th \in Thoughts, d1 \in {0, 60 * SubPerSec - 1} :
          SvcAddHold(th, MarketState(ScenarioEntryPrice), {}, d1, 0)
    /\ UNCHANGED <<appVars, raceVars, capVars, lineVars>>
LcEndSessionStep ==
    /\ ncalls < MaxLifecycleCalls
    /\ \E d1 \in {0, 60 * SubPerSec - 1} :
          SvcEndSession("SELL", "target hit", MarketState(ScenarioExitPrice), {}, d1, 0)
    /\ UNCHANGED <<appVars, raceVars, capVars, lineVars>>

NextLifecycle == LcStartSessionStep \/ LcAddHoldStep \/ LcEndSessionStep
SpecLifecycle == Init /\ [][NextLifecycle]_vars

\* the pending queue: a few detections, thoughts submitted in any order
ActionDetectedStep ==
    /\ ndetect < MaxDetects
    /\ \E a \in {"BUY", "SELL"} : OnActionDetected(a, None, SubPerSec)
SubmitThoughtStep ==
    /\ nsubmit < MaxSubmits
    /\ \E th \in Thoughts, a \in {"BUY", "SELL"} : SvcSubmitThought(th, a, 1)
    /\ UNCHANGED <<raceVars, capVars, lineVars, connVars>>

NextQueue == ActionDetectedStep \/ SubmitThoughtStep
SpecQueue == Init /\ [][NextQueue]_vars

\* the pending queue filled past its length by one position opened and closed
\* over and over, one thought submitted somewhere on the way
OverflowDetectedStep ==
    /\ ndetect < MaxOverflowDetects
    /\ \E a \in (IF ndetect % 2 = 0 THEN {"BUY"} ELSE ExitActions) :
          OnActionDetected(a, None, SubPerSec)
OverflowSubmitStep ==
    /\ nsubmit < MaxOverflowSubmits
    /\ \E a \in {"BUY", "SELL"} : SvcSubmitThought("trend intact", a, 1)
    /\ UNCHANGED <<raceVars, capVars, lineVars, connVars>>

NextOverflow == OverflowDetectedStep \/ OverflowSubmitStep
SpecOverflow == Init /\ [][NextOverflow]_vars

\* the collector started and left to run against a broker whose terminal
\* always answers, tickets opened and closed at will
BrokerOpenStep == \E t \in Tickets, p \in {-1, 1} : BrokerOpen(t, p)
BrokerCloseStep == \E t \in Tickets : BrokerClose(t)
LoopIterStep == LoopIter("none")

NextBroker == BrokerOpenStep \/ BrokerCloseStep \/ CollectorStart \/ LoopIterStep
SpecBroker == Init /\ [][NextBroker]_vars

\* the collector started and stopped at will, the terminal going away and
\* coming back, one ticket opened and closed
GwOpenStep == \E p \in {-1, 1} : BrokerOpen(1, p)
GwCloseStep == BrokerClose(1)
GwProfitStep == \E p \in {-1, 1} : BrokerProfit(1, p)

NextGateway ==
    \/ GwOpenStep \/ GwCloseStep \/ GwProfitStep \/ GatewayDown \/ GatewayUp
    \/ CollectorStart \/ CollectorStop \/ LoopIterStep
SpecGateway == Init /\ [][NextGateway]_vars

\* the poll loop left to run, iterations failing now and then: the loop
\* thread is a daemon thread that sleeps poll_interval between two
\* iterations, so an iteration that can be made is made in the end
LoopOpenStep == \E p \in {-1, 1} : BrokerOpen(1, p)
LoopCloseStep == BrokerClose(1)
LoopFailStep ==
    /\ nfailures < MaxFailures
    /\ \E fail \in {"gateway", "save", "subscriber"} : LoopIter(fail)

NextLoop ==
    \/ LoopOpenStep \/ LoopCloseStep \/ CollectorStart \/ CollectorStop
    \/ LoopIterStep \/ LoopFailStep
SpecLoop == Init /\ [][NextLoop]_vars /\ WF_vars(LoopIterStep \/ LoopFailStep)

\* the monitor started and stopped at will, one ticket opened and closed;
\* the poll thread may be inside an iteration for longer than stop() waits
StopStep == \E joined \in BOOLEAN : StopJoin(joined)
StopOpenStep == \E p \in {-1, 1} : BrokerOpen(1, p)
StopCloseStep == BrokerClose(1)
\* a thread stop() left behind; after the shutdown it finds no position,
\* whatever is open, so the log is let grow up to MaxStopReports
StopLateStep == Len(action_log) < MaxStopReports /\ LateIter

NextStop ==
    \/ StopOpenStep \/ StopCloseStep \/ CollectorStart \/ StopStep
    \/ LoopIterStep \/ StopLateStep
SpecStop == Init /\ [][NextStop]_vars

\* the poll loop, the screenshot loop and a session verb on the one
\* connection of the process, the terminal answering throughout
ConnOpenStep == \E p \in {-1, 1} : BrokerOpen(1, p)
ConnShotStep ==
    /\ Len(data_points) < MaxShots
    /\ \E shot \in BOOLEAN : ScreenshotLoopIter(shot, SubPerSec)
ConnVerbStep ==
    /\ ncalls < MaxConnCalls
    /\ SvcStartSession("oversold", CollectAllTimeframes(mt5_up, ScenarioEntryPrice),
                       {}, SubPerSec, 0, 0)
    /\ UNCHANGED <<appVars, raceVars, capVars, lineVars>>

NextConn ==
    \/ ConnOpenStep \/ CollectorStart \/ LoopIterStep \/ ConnShotStep \/ ConnVerbStep
SpecConn == Init /\ [][NextConn]_vars

\* a session held while the collector is started and stopped, the poll loop
\* detects, and a rationale is submitted
FrameOpenStep == \E p \in {-1, 1} : BrokerOpen(1, p)
FrameCloseStep == BrokerClose(1)
FrameSubmitStep ==
    /\ nsubmit < MaxFrameSubmits
    /\ SvcSubmitThought("trend intact", "SELL", 1)
    /\ UNCHANGED <<raceVars, capVars, lineVars, connVars>>
\* one start() and one stop() in a behaviour
FrameStartStep == lastStart = None /\ CollectorStart
FrameStopStep == svc_running /\ CollectorStop
FrameVerbStep ==
    /\ ncalls < MaxFrameCalls
    /\ \/ SvcStartSession("oversold", MarketState(ScenarioEntryPrice), {}, 1, 0, 0)
       \/ SvcAddHold("still waiting", MarketState(ScenarioEntryPrice), {}, 1, 0)
       \/ SvcEndSession("SELL", "target hit", MarketState(ScenarioExitPrice), {}, 1, 0)
    /\ UNCHANGED <<appVars, raceVars, capVars, lineVars>>

NextFrame ==
    \/ FrameOpenStep \/ FrameCloseStep \/ FrameStartStep \/ FrameStopStep
    \/ LoopIterStep \/ FrameSubmitStep \/ FrameVerbStep
SpecFrame == Init /\ [][NextFrame]_vars

\* the session endpoints, requests arriving while others wait
AppReceiveStep ==
    \/ \E verb \in {"start", "hold"} : AppReceive(verb, "")
    \/ \E action \in {"SELL", "STOP_LOSS", "BUY", "HOLD"} : AppReceive("end", action)
AppRunStep ==
    \E i \in DOMAIN handlers, d1 \in {0, SubPerSec} :
        AppRun(i, "oversold", MarketState(ScenarioEntryPrice), d1)
AppNotifyStep == \E i \in DOMAIN handlers : AppNotify(i)

NextApp == AppReceiveStep \/ AppRunStep \/ AppNotifyStep
SpecApp == Init /\ [][NextApp]_vars

\* the two threads, switched between any two accesses
RacePollLoadStep ==
    /\ ndetect < MaxRaceDetects
    /\ \E a \in {"BUY", "SELL"} : RacePollLoad(a)
RaceVerbLoadStep ==
    /\ ncalls + nsubmit < MaxRaceRequests
    /\ RaceVerbLoad("oversold", MarketState(ScenarioEntryPrice), 1)
RaceScanBeginStep ==
    /\ ncalls + nsubmit < MaxRaceRequests
    /\ \E a \in {"BUY", "SELL"} : RaceScanBegin("trend intact", a)

NextRace ==
    \/ RacePollLoadStep \/ RacePollStore \/ RaceVerbLoadStep \/ RaceVerbStore
    \/ RaceScanBeginStep \/ RaceScanNext
SpecRace == Init /\ [][NextRace]_vars

\* the session verbs, one write of a call failing
FailStartStep ==
    /\ ncalls < MaxFailCalls
    /\ \E f \in 0..MaxFailWrite :
          SvcStartSession("oversold", MarketState(ScenarioEntryPrice), {}, 1, 0, f)
    /\ UNCHANGED <<appVars, raceVars, capVars, lineVars>>
FailHoldStep ==
    /\ ncalls < MaxFailCalls
    /\ \E f \in 0..MaxFailWrite :
          SvcAddHold("still waiting", MarketState(ScenarioEntryPrice), {}, 1, f)
    /\ UNCHANGED <<appVars, raceVars, capVars, lineVars>>
FailEndStep ==
    /\ ncalls < MaxFailCalls
    /\ \E f \in 0..MaxFailWrite :
          SvcEndSession("SELL", "target hit", MarketState(ScenarioExitPrice), {}, 1, f)
    /\ UNCHANGED <<appVars, raceVars, capVars, lineVars>>

NextFail == FailStartStep \/ FailHoldStep \/ FailEndStep
SpecFail == Init /\ [][NextFail]_vars

\* the session verbs, the collaborators answering or failing
Collaborators(mql5, windows, reachable) ==
    Some([mql5 |-> mql5, windows |-> windows, reachable |-> reachable,
          raised |-> CaptureAllTimeframes(mql5, windows) = None, n |-> ncalls + 1])
CaptureRaised ==
    UNCHANGED <<sessionVars, monitorVars, thoughtVars, gatewayVars, serviceVars,
                loopVars, stopVars, appVars, raceVars, lineVars, connVars>>
CapStartStep ==
    /\ ncalls < MaxCaptureCalls
    /\ \E mql5 \in CaptureOutcomes, windows \in CaptureOutcomes \ {"timeout"},
          reachable \in BOOLEAN, d1 \in {0, SubPerSec} :
          /\ lastCapture' = Collaborators(mql5, windows, reachable)
          /\ IF CaptureAllTimeframes(mql5, windows) = None THEN CaptureRaised
             ELSE /\ SvcStartSession("oversold",
                                     CollectAllTimeframes(reachable, ScenarioEntryPrice),
                                     Val(CaptureAllTimeframes(mql5, windows)), d1, 0, 0)
                  /\ UNCHANGED <<appVars, raceVars, lineVars>>
CapHoldStep ==
    /\ ncalls < MaxCaptureCalls
    /\ \E mql5 \in CaptureOutcomes, windows \in CaptureOutcomes \ {"timeout"},
          reachable \in BOOLEAN, d1 \in {0, SubPerSec} :
          /\ lastCapture' = IF active_session = None THEN lastCapture
                            ELSE Collaborators(mql5, windows, reachable)
          /\ IF active_session # None /\ CaptureAllTimeframes(mql5, windows) = None
             THEN CaptureRaised
             ELSE /\ SvcAddHold("still waiting",
                                CollectAllTimeframes(reachable, ScenarioEntryPrice),
                                Val(CaptureAllTimeframes(mql5, windows)), d1, 0)
                  /\ UNCHANGED <<appVars, raceVars, lineVars>>
CapEndStep ==
    /\ ncalls < MaxCaptureCalls
    /\ \E mql5 \in CaptureOutcomes, windows \in CaptureOutcomes \ {"timeout"},
          reachable \in BOOLEAN, d1 \in {0, SubPerSec} :
          /\ lastCapture' = IF active_session = None THEN lastCapture
                            ELSE Collaborators(mql5, windows, reachable)
          /\ IF active_session # None /\ CaptureAllTimeframes(mql5, windows) = None
             THEN CaptureRaised
             ELSE /\ SvcEndSession("SELL", "target hit",
                                   CollectAllTimeframes(reachable, ScenarioExitPrice),
                                   Val(CaptureAllTimeframes(mql5, windows)), d1, 0)
                  /\ UNCHANGED <<appVars, raceVars, lineVars>>

NextCapture == CapStartStep \/ CapHoldStep \/ CapEndStep
SpecCapture == Init /\ [][NextCapture]_vars

\* the annotation file and its readers
LineFiles == UNION {[1..n -> Lines] : n \in 0..MaxLines}
\* one export in a behaviour, before the first read
ExportLinesStep ==
    /\ lines_file = <<>> /\ lines_read = None
    /\ \E lines \in LineFiles : ExportLines(lines)

NextLines == ExportLinesStep \/ ReadRawLines \/ RereadLines
SpecLines == Init /\ [][NextLines]_vars

\* the monitor running against the broker, sessions started and ended by hand
\* while the M1 close is away from the price of the position
PriceOpenStep == \E p \in {-1, 1} : BrokerOpen(1, p)
PriceCloseStep == BrokerClose(1)
PriceStartStep ==
    /\ ncalls < MaxPriceCalls
    /\ \E ms \in {None, MarketState(ScenarioExitPrice)} :
          SvcStartSession("oversold", ms, {}, 1, 0, 0)
    /\ UNCHANGED <<appVars, raceVars, capVars, lineVars>>
PriceEndStep ==
    /\ ncalls < MaxPriceCalls
    /\ \E ms \in {None, MarketState(ScenarioExitPrice)} :
          SvcEndSession("SELL", "target hit", ms, {}, 1, 0)
    /\ UNCHANGED <<appVars, raceVars, capVars, lineVars>>

NextPrice ==
    \/ PriceOpenStep \/ PriceCloseStep \/ CollectorStart \/ LoopIterStep
    \/ PriceStartStep \/ PriceEndStep
SpecPrice == Init /\ [][NextPrice]_vars

(***************************************************************************)
(* Sessions in storage and in memory.                                      *)
(***************************************************************************)
\* every session get_session can load
Persisted == {DictToSession(disk[d]) : d \in DOMAIN disk}
\* the session objects in memory: the active slot and, after end_session, the
\* session it returned
InMemory ==
    (IF IsSome(active_session) THEN {Val(active_session)} ELSE {})
    \cup (IF IsSome(last) /\ Val(last).op = "end_session" /\ IsSome(Val(last).ret)
          THEN {Val(Val(last).ret)} ELSE {})
AllSessions == Persisted \cup InMemory
\* the ids of the sessions whose status is ACTIVE, in the slot or in storage
ActiveIds ==
    {d \in DOMAIN disk : disk[d].status = "active"}
    \cup (IF IsSome(active_session) /\ Val(active_session).status = "ACTIVE"
          THEN {Val(active_session).session_id} ELSE {})
LastIs(op) == IsSome(last) /\ Val(last).op = op
SessionState == <<active_session, active_session_dir, disk, snapshots,
                  actions_count, last_action_at>>

(***************************************************************************)
(* C1: at most one session is ACTIVE, the active slot and the persisted    *)
(* records taken together, after any sequence of session verbs.            *)
(***************************************************************************)
C1_AtMostOneActive == Cardinality(ActiveIds) <= 1

\* a start_session has force-completed a session that stays in storage next
\* to the new ACTIVE one
C1_Witness ==
    /\ LastIs("start_session") /\ IsSome(Val(last).had)
    /\ Cardinality(DOMAIN disk) = 2
    /\ Cardinality(ActiveIds) = 1

(***************************************************************************)
(* C2: start_session with a session ACTIVE writes the prior session's exit *)
(* snapshot and its COMPLETED record (exit SELL, the system's rationale,   *)
(* a result) first, the new session's entry snapshot and ACTIVE record     *)
(* after, and returns the new session's id; the prior session is not       *)
(* ACTIVE afterwards.                                                      *)
(***************************************************************************)
C2_ForceComplete ==
    (LastIs("start_session") /\ IsSome(Val(last).had)) =>
        LET c == Val(last)
            prior == Val(c.had)
            tEnd == c.times[1]
            tStart == c.times[2]
            new_id == Strftime(tStart)
        IN  /\ ~c.raised
            /\ c.ret = Some(new_id)
            /\ c.writes =
                 << [kind |-> "snapshot", dir |-> prior.session_id,
                     name |-> <<Strftime(tEnd), "SELL">>],
                    [kind |-> "session", dir |-> prior.session_id,
                     name |-> "completed"],
                    [kind |-> "snapshot", dir |-> new_id,
                     name |-> <<Strftime(tStart), "BUY">>],
                    [kind |-> "session", dir |-> new_id, name |-> "active"] >>
            /\ IsSome(active_session)
            /\ Val(active_session).session_id = new_id
            /\ Val(active_session).status = "ACTIVE"
            /\ Val(active_session).holds = <<>>
            /\ GetSession(disk, new_id) = active_session
            /\ prior.session_id # new_id =>
                 LET p == Val(GetSession(disk, prior.session_id))
                 IN  /\ p.status = "COMPLETED"
                     /\ p.entry = prior.entry
                     /\ p.holds = prior.holds
                     /\ p.exit = Some(SessionExit(tEnd, "SELL", c.price, AutoCloseThought))
                     /\ IsSome(p.result)
                     /\ p.snapshot_count = prior.snapshot_count + 1
            /\ \A d \in DOMAIN disk : d # new_id => disk[d].status = "completed"

\* the prior session had a hold and is in storage, COMPLETED, under its own id
C2_Witness ==
    /\ LastIs("start_session") /\ IsSome(Val(last).had)
    /\ Val(Val(last).had).holds # <<>>
    /\ Val(Val(last).had).session_id # Val(active_session).session_id
    /\ Val(Val(last).had).session_id \in DOMAIN disk

\* SessionManager.end_session itself, whatever its arguments
C3_ManagerRejects ==
    active_session = None =>
        \A a \in ExitActions, th \in Thoughts, ms \in MarketStates :
            EndSession(TheManager(0), a, th, GetCurrentPrice(last_position_info, ms),
                       ms, {}, clock)
                = [m |-> TheManager(0), ret |-> None]

(***************************************************************************)
(* C3: end_session with no session ACTIVE returns None, leaves the         *)
(* manager's session state and the status counters as they were and        *)
(* writes no file.                                                         *)
(***************************************************************************)
C3_EndRejected ==
    [][(active_session = None /\ last' # last /\ Val(last').op = "end_session") =>
          /\ ~Val(last').ok
          /\ Val(last').ret = None
          /\ Val(last').writes = <<>>
          /\ ~Val(last').raised
          /\ UNCHANGED SessionState
          /\ C3_ManagerRejects]_vars

\* an end_session was rejected with sessions in storage
C3_Witness ==
    /\ LastIs("end_session") /\ Val(last).had = None
    /\ Val(last).ret = None
    /\ disk # <<>>

\* SessionManager.add_hold itself, whatever its arguments
C4_ManagerRejects ==
    active_session = None =>
        \A th \in Thoughts, ms \in MarketStates :
            AddHold(TheManager(0), th, ms, {}, clock)
                = [m |-> TheManager(0), ret |-> FALSE]

(***************************************************************************)
(* C4: add_hold with no session ACTIVE returns false, appends no hold,     *)
(* saves no bundle and changes neither a snapshot_count nor a counter.     *)
(***************************************************************************)
C4_HoldRejected ==
    [][(active_session = None /\ last' # last /\ Val(last').op = "add_hold") =>
          /\ ~Val(last').ok
          /\ Val(last').ret = None
          /\ Val(last').writes = <<>>
          /\ ~Val(last').raised
          /\ UNCHANGED SessionState
          /\ C4_ManagerRejects]_vars

\* an add_hold was rejected after a session had been completed
C4_Witness ==
    /\ LastIs("add_hold") /\ Val(last).had = None
    /\ ~Val(last).ok
    /\ disk # <<>>

C6_ResultIffCompleted ==
    /\ \A s \in AllSessions :
         /\ IsSome(s.result) <=> s.status = "COMPLETED"
         /\ IsSome(s.exit) <=> s.status = "COMPLETED"
    /\ \A d \in DOMAIN disk :
         /\ disk[d].result # None <=> disk[d].status = "completed"
         /\ disk[d].exit # None <=> disk[d].status = "completed"

\* a COMPLETED session in storage next to an ACTIVE one in the slot
C6_Witness ==
    /\ IsSome(active_session)
    /\ \E d \in DOMAIN disk : disk[d].status = "completed" /\ disk[d].result # None
    /\ \E d \in DOMAIN disk : disk[d].status = "active" /\ disk[d].result = None

(***************************************************************************)
(* C7: the result of a completed session is duration_minutes = the whole   *)
(* minutes from entry to exit (floor), profit = exit price - entry price,  *)
(* profit_pips = profit x 10.                                              *)
(***************************************************************************)
ResultAsClaimed(s) ==
    LET entry == Val(s.entry)
        exit == Val(s.exit)
        res == Val(s.result)
    IN  /\ res.duration_minutes * 60 * SubPerSec <= exit.time - entry.time
        /\ exit.time - entry.time < (res.duration_minutes + 1) * 60 * SubPerSec
        /\ res.profit = exit.price - entry.price
        /\ res.profit_pips = (exit.price - entry.price) * 10

C7_Result ==
    /\ (LastIs("end_session") /\ IsSome(Val(last).ret)) =>
         /\ IsSome(Val(Val(last).ret).result)
         /\ ResultAsClaimed(Val(Val(last).ret))
    /\ \A s \in Persisted : s.status = "COMPLETED" => ResultAsClaimed(s)

\* entry 2850.50, exit 2855.20, 47 minutes apart: 47 minutes, 4.70, 47.0
C7_Witness ==
    /\ LastIs("end_session") /\ IsSome(Val(last).ret)
    /\ LET s == Val(Val(last).ret)
       IN  /\ Val(s.entry).price = 285050
           /\ Val(s.exit).price = 285520
           /\ Val(s.exit).time - Val(s.entry).time = 47 * 60 * SubPerSec
           /\ Val(s.result) = SessionResult(47, 470, 4700)

(***************************************************************************)
(* C8: get_session(id) right after end_session returned a session gives a  *)
(* session equal to it in every field.                                     *)
(***************************************************************************)
C8_RoundTrip ==
    (LastIs("end_session") /\ IsSome(Val(last).ret)) =>
        GetSession(disk, Val(Val(last).ret).session_id) = Val(last).ret

\* the session had a hold, and times with a fraction of a second
C8_Witness ==
    /\ LastIs("end_session") /\ IsSome(Val(last).ret)
    /\ LET s == Val(Val(last).ret)
       IN  /\ Len(s.holds) = 1
           /\ s.holds[1].time % SubPerSec # 0
           /\ Val(s.exit).time % SubPerSec # 0
           /\ GetSession(disk, s.session_id) = Some(s)

(***************************************************************************)
(* C9: a poll that finds exactly one ticket added and none removed detects *)
(* BUY with that ticket's PositionInfo from the current snapshot, whatever *)
(* other tickets are open.                                                 *)
(***************************************************************************)
Added(p) == DOMAIN p.current \ DOMAIN p.previous
Removed(p) == DOMAIN p.previous \ DOMAIN p.current

C9_DetectBuy ==
    IsSome(lastPoll) =>
        LET p == Val(lastPoll)
        IN  (Cardinality(Added(p)) = 1 /\ Removed(p) = {}) =>
                /\ p.action = "BUY"
                /\ \A t \in Added(p) : p.position = Some(p.current[t])
                /\ mon_last_action = Some("BUY")
                /\ mon_last_position_info = p.position

\* one ticket added while another stays open with a changed profit
C9_Witness ==
    /\ IsSome(lastPoll)
    /\ LET p == Val(lastPoll)
       IN  /\ Cardinality(Added(p)) = 1 /\ Removed(p) = {}
           /\ \E t \in DOMAIN p.previous : p.previous[t].profit # p.current[t].profit
           /\ p.action = "BUY"

(***************************************************************************)
(* C10: a poll that finds exactly one ticket removed and none added        *)
(* detects STOP_LOSS if the ticket's profit in the baseline is negative    *)
(* and SELL if it is zero or more, with the ticket's PositionInfo from the *)
(* baseline.                                                               *)
(***************************************************************************)
C10_DetectClose ==
    IsSome(lastPoll) =>
        LET p == Val(lastPoll)
        IN  (Cardinality(Removed(p)) = 1 /\ Added(p) = {}) =>
                \A t \in Removed(p) :
                    /\ p.action = IF p.previous[t].profit < 0 THEN "STOP_LOSS" ELSE "SELL"
                    /\ p.position = Some(p.previous[t])
                    /\ mon_last_action = Some(p.action)
                    /\ mon_last_position_info = p.position

\* a ticket with profit zero closed while another stayed open: SELL
C10_Witness ==
    /\ IsSome(lastPoll)
    /\ LET p == Val(lastPoll)
       IN  /\ Cardinality(Removed(p)) = 1 /\ Added(p) = {}
           /\ DOMAIN p.current # {}
           /\ \A t \in Removed(p) : p.previous[t].profit = 0
           /\ p.action = "SELL"

(***************************************************************************)
(* C11: a poll whose snapshot holds the same tickets as the baseline       *)
(* detects HOLD with no position detail, whatever the profits of the       *)
(* tickets have become, and the snapshot handed in becomes the baseline    *)
(* as it was read.                                                         *)
(***************************************************************************)
C11_DetectHold ==
    IsSome(lastPoll) =>
        LET p == Val(lastPoll)
        IN  DOMAIN p.current = DOMAIN p.previous =>
                /\ p.action = "HOLD"
                /\ p.position = None
                /\ mon_last_action = Some("HOLD")
                /\ mon_last_position_info = None
                /\ previous_positions = p.current

\* the same ticket polled with another profit than in the baseline
C11_Witness ==
    /\ IsSome(lastPoll)
    /\ LET p == Val(lastPoll)
       IN  /\ DOMAIN p.current = DOMAIN p.previous
           /\ \E t \in DOMAIN p.previous :
                  p.previous[t].profit > 0 /\ p.current[t].profit < 0
           /\ p.action = "HOLD"

(***************************************************************************)
(* C13: the pending queue never holds more than PendingMaxLen entries.     *)
(* Every detection is enqueued as the newest entry, unresolved; when the   *)
(* queue is full the oldest entry leaves, resolved or not, and the others  *)
(* keep their order and their contents.  A deque of length 2 given A, B, C *)
(* is left with B, C.                                                      *)
(***************************************************************************)
C13_BoundedQueue ==
    [][/\ Len(pending_actions') <= PendingMaxLen
       /\ ndetect' = ndetect + 1 =>
              LET e == [action |-> action_log'[Len(action_log')].action,
                        timestamp |-> clock', thought |-> None]
                  all == Append(pending_actions, e)
              IN  pending_actions' =
                     IF Len(all) <= PendingMaxLen THEN all ELSE Tail(all)
       /\ DequeAppendN(DequeAppendN(DequeAppendN(<<>>, "A", 2), "B", 2), "C", 2)
             = <<"B", "C">>]_vars

\* more detections than the queue holds: the queue is full, the first
\* detection is gone, and an entry that got its thought is still there
C13_Witness ==
    /\ ndetect > PendingMaxLen
    /\ Len(pending_actions) = PendingMaxLen
    /\ pending_actions[1].timestamp > SubPerSec
    /\ \E i \in 1..Len(pending_actions) : pending_actions[i].thought # None

\* the first entry of q that waits for a thought on the action
FirstUnresolved(q, action) ==
    CHOOSE i \in Unresolved(q, action) : \A j \in Unresolved(q, action) : i <= j
IsSubmit == nsubmit' = nsubmit + 1

(***************************************************************************)
(* C14: a submit for an action that no entry of the queue waits on fails   *)
(* with NotFound - it raises to the caller and returns no thought - and    *)
(* leaves every queue entry as it was.                                     *)
(***************************************************************************)
C14_NotFound ==
    [][IsSubmit =>
          LET s == Val(lastSubmit')
          IN  Unresolved(pending_actions, s.action) = {} =>
                 /\ s.raised
                 /\ s.ret = None
                 /\ pending_actions' = pending_actions]_vars

(***************************************************************************)
(* C15: a submit that finds entries of its action waiting for a thought    *)
(* sets the thought of the earliest inserted of them and of no other; no   *)
(* submit changes an entry whose thought is set, and none adds or removes  *)
(* an entry.                                                               *)
(***************************************************************************)
C15_EarliestOnly ==
    [][IsSubmit =>
          LET s == Val(lastSubmit')
              q == pending_actions
          IN  /\ Len(pending_actions') = Len(q)
              /\ \A i \in 1..Len(q) :
                     q[i].thought # None => pending_actions'[i] = q[i]
              /\ Unresolved(q, s.action) # {} =>
                     LET i == FirstUnresolved(q, s.action)
                     IN  pending_actions' =
                            [q EXCEPT ![i] = [action |-> s.action,
                                              timestamp |-> q[i].timestamp,
                                              thought |-> Some(s.thought)]]]_vars

\* two BUY entries resolved in turn by two submits of different texts, the
\* SELL entry between them still waiting
C15_Witness ==
    /\ Len(pending_actions) = 3
    /\ pending_actions[1].action = "BUY" /\ pending_actions[3].action = "BUY"
    /\ pending_actions[2] = [action |-> "SELL", timestamp |-> 2 * SubPerSec,
                             thought |-> None]
    /\ pending_actions[1].thought # None /\ pending_actions[3].thought # None
    /\ pending_actions[1].thought # pending_actions[3].thought
    /\ Val(lastSubmit).thought = Val(pending_actions[3].thought)

(***************************************************************************)
(* C16: a submit calls the thought callback exactly once when an entry     *)
(* waited for it, and links one data point of that entry: its action, the  *)
(* timestamp of its detection and the submitted thought; a submit that     *)
(* matches no entry calls no callback and links nothing.                   *)
(***************************************************************************)
C16_CallbackOnMatch ==
    [][IsSubmit =>
          LET s == Val(lastSubmit')
              q == pending_actions
          IN  IF Unresolved(q, s.action) = {}
              THEN s.callbacks = 0 /\ data_points' = data_points
              ELSE /\ s.callbacks = 1
                   /\ Len(data_points') = Len(data_points) + 1
                   /\ SubSeq(data_points', 1, Len(data_points)) = data_points
                   /\ LET dp == data_points'[Len(data_points')]
                      IN  /\ dp.action = s.action
                          /\ dp.timestamp =
                                q[FirstUnresolved(q, s.action)].timestamp
                          /\ dp.thought = Some(s.thought)]_vars

IsIter == ticks' # ticks

C17_HoldIsSilent ==
    [][/\ \A i \in 1..Len(pending_actions') :
              pending_actions'[i].action \in Action \ {"HOLD"}
       /\ IsIter =>
              LET p == Val(lastPoll')
              IN  /\ p.action \in Action
                  /\ mon_last_action' = Some(p.action)
                  /\ IF p.action = "HOLD"
                     THEN UNCHANGED <<pending_actions, action_log, actions_count,
                                      last_action_at, clock, reported>>
                     ELSE /\ pending_actions' = DequeAppend(pending_actions,
                                 [action |-> p.action, timestamp |-> clock',
                                  thought |-> None])
                          /\ Len(action_log') = Len(action_log) + 1
                          /\ actions_count' = actions_count + 1]_vars

\* a poll that found nothing new while a position was open and an earlier
\* detection waited in the queue
C17_Witness ==
    /\ IsSome(lastPoll) /\ Val(lastPoll).action = "HOLD"
    /\ DOMAIN previous_positions # {}
    /\ Len(pending_actions) = 1
    /\ Len(action_log) = 1

IsStart == lastStart' # lastStart

(***************************************************************************)
(* C19: a poll made while the terminal does not answer is skipped: it      *)
(* reports no BUY, SELL or STOP_LOSS and enqueues and logs nothing.  No    *)
(* poll reports the close of a ticket the broker has not closed, and none  *)
(* reports the opening of a ticket whose opening was reported before.      *)
(***************************************************************************)
C19_OutageSkipped ==
    [][IsIter =>
          LET it == Val(lastIter')
          IN  /\ ~mt5_up =>
                    /\ it.action \in {None, Some("HOLD")}
                    /\ UNCHANGED <<pending_actions, action_log, actions_count,
                                   reported>>
              /\ it.action \in {Some("SELL"), Some("STOP_LOSS")} =>
                    Val(Val(lastPoll').position).ticket \in closed
              /\ it.action = Some("BUY") =>
                    <<"open", Val(Val(lastPoll').position).ticket>> \notin reported]_vars

(***************************************************************************)
(* C20: a start() made while the terminal cannot be connected returns      *)
(* false from PositionMonitor.start and from CollectorService.start,       *)
(* starts neither the poll loop nor the capture loop and leaves the        *)
(* running flags of monitor, service and status false.  The flags go up    *)
(* in no step but a start() call, and a start() made while the terminal    *)
(* answers returns true and sets them, whatever was returned before.       *)
(***************************************************************************)
C20_StartFails ==
    [][/\ (IsStart /\ ~mt5_up /\ ~svc_running /\ ~mon_running) =>
              /\ Val(lastStart').monitor_ret = Some(FALSE)
              /\ Val(lastStart').ret = FALSE
              /\ ~mon_running' /\ ~mon_thread' /\ ~mt5_initialized'
              /\ ~svc_running' /\ ~shot_thread' /\ ~status_is_running'
              /\ UNCHANGED <<previous_positions, started_at>>
       /\ (IsStart /\ mt5_up /\ ~svc_running) =>
              /\ Val(lastStart').ret = TRUE
              /\ mon_running' /\ mon_thread' /\ svc_running' /\ shot_thread'
              /\ status_is_running'
       /\ ~IsStart =>
              /\ mon_running' => mon_running
              /\ mon_thread' => mon_thread
              /\ svc_running' => svc_running
              /\ shot_thread' => shot_thread
              /\ status_is_running' => status_is_running]_vars

\* a start() that succeeded right after one that failed
C20_Witness ==
    /\ IsSome(lastStart)
    /\ Val(lastStart).prev_ret = Some(FALSE)
    /\ Val(lastStart).ret = TRUE
    /\ mon_running /\ svc_running /\ status_is_running

(***************************************************************************)
(* C18: an iteration of the poll loop that raises - while the positions    *)
(* are fetched or in the callback - does not end the loop: while the       *)
(* monitor is running its thread is alive, and a failed iteration is       *)
(* followed by another iteration unless stop() comes first.                *)
(***************************************************************************)
C18_LoopSurvives ==
    /\ [](mon_running => mon_thread)
    /\ \A b \in {0, 1} :
          (mon_running /\ ticks = b /\ IsSome(lastIter)
             /\ Val(lastIter).fail # "none")
            ~> (ticks # b \/ ~mon_running)

\* start() was called once, an iteration failed, and the last iteration made
\* ended well
C18_Witness ==
    /\ mon_running
    /\ IsSome(lastStart) /\ Val(lastStart).prev_ret = None
    /\ nfailures > 0
    /\ IsSome(lastIter) /\ Val(lastIter).fail = "none"
    /\ Val(lastIter).action = Some("SELL")

IsStop == stops' # stops
Stopped ==
    /\ ~mon_running /\ ~mon_thread /\ ~mt5_initialized
    /\ ~svc_running /\ ~shot_thread /\ ~status_is_running

(***************************************************************************)
(* C21: stop() leaves monitor and service not running and the terminal     *)
(* disconnected, whatever the state it is called in; a stop() made on a    *)
(* stopped collector changes nothing; and while the monitor is not running *)
(* no detection is handed to the callback: nothing is logged, enqueued or  *)
(* reported from a stop() to the next start().                             *)
(***************************************************************************)
C21_StopEffective ==
    [][/\ IsStop => Stopped'
       /\ (IsStop /\ Stopped) =>
              UNCHANGED <<sessionVars, monitorVars, thoughtVars, gatewayVars,
                          serviceVars, loopVars, late_thread>>
       /\ ~mon_running =>
              UNCHANGED <<action_log, pending_actions, actions_count, reported>>]_vars

Handled(i) == handlers[i].pc = "received" /\ handlers'[i].pc # "received"
AppFrame ==
    UNCHANGED <<sessionVars, monitorVars, thoughtVars, gatewayVars, serviceVars,
                loopVars, stopVars, raceVars, capVars, lineVars, connVars>>

(***************************************************************************)
(* C28: at the endpoints a verb whose precondition does not hold is        *)
(* answered with a rejection of its own and changes nothing: a start while *)
(* a session is active gets 400 "Active session exists..." and the active  *)
(* session is neither completed nor replaced; a hold or an end with no     *)
(* session active gets 400 "No active session".  No request whose          *)
(* precondition holds gets either answer.                                  *)
(***************************************************************************)
C28_BoundaryRejects ==
    [][\A i \in DOMAIN handlers :
          Handled(i) =>
             LET has == IsSome(active_session)
                 h == handlers'[i]
             IN  /\ (h.verb = "start" /\ has) =>
                        /\ h.status = 400
                        /\ h.detail =
                              "Active session exists. End it before starting a new one."
                        /\ AppFrame
                 /\ (h.verb \in {"hold", "end"} /\ ~has) =>
                        /\ h.status = 400 /\ h.detail = "No active session"
                        /\ AppFrame
                 /\ (h.verb = "start" /\ ~has) => h.status = 200
                 /\ (h.verb = "hold" /\ has) => h.status = 200
                 /\ (h.verb = "end" /\ has) =>
                        \/ h.status = 200
                        \/ h.status = 400 /\ h.detail = "Invalid action" /\ AppFrame]_vars

\* a hold was rejected with no session active, a start was rejected while a
\* session was active, and that session is active still
C28_Witness ==
    /\ IsSome(active_session)
    /\ \E i, j, k \in DOMAIN handlers :
          /\ handlers[i].verb = "hold" /\ handlers[i].status = 400
          /\ handlers[j].verb = "start" /\ handlers[j].status = 200
          /\ handlers[k].verb = "start" /\ handlers[k].status = 400
          /\ Val(last).op = "start_session" /\ Val(last).ret = Some(Val(active_session).session_id)

(***************************************************************************)
(* C23: the status counters and the pending queue are mutually excluded    *)
(* between the poll thread and the request thread: once both threads have  *)
(* finished their increments, actions_count is the number of increments    *)
(* made; no scan of the queue by submit_thought ends in an exception; and  *)
(* every action enqueued is in the queue while it holds fewer than         *)
(* PendingMaxLen entries.                                                  *)
(***************************************************************************)
C23_MutualExclusion ==
    /\ (reg_poll = None /\ reg_req = None) => actions_count = increments
    /\ IsSome(lastSubmit) => ~Val(lastSubmit).raised
    /\ ndetect <= PendingMaxLen => Len(pending_actions) = ndetect

(***************************************************************************)
(* C24: a write that fails during a session verb - a file of the snapshot  *)
(* bundle, the annotation list among them, or the session record - is      *)
(* never swallowed: the verb raises to its caller and returns no success.  *)
(***************************************************************************)
C24_NeverSwallowed ==
    (IsSome(last) /\ Val(last).failed) => (Val(last).raised /\ ~Val(last).ok)

\* a session verb asked its collaborators in this step
IsCapture == lastCapture' # lastCapture
\* the bundle that verb saved: its directory, second and action
CapturedKey ==
    LET op == Val(last').op
    IN  <<IF op = "start_session" THEN Val(active_session_dir')
          ELSE Val(active_session_dir),
          <<Strftime(clock'),
            IF op = "start_session" THEN "BUY"
            ELSE IF op = "add_hold" THEN "HOLD" ELSE "SELL">>>>

(***************************************************************************)
(* C25: capture and market data are best effort.  Whatever the two         *)
(* captures and the terminal answer - a timeout, a failure, no connection  *)
(* - a session verb called in a state that allows it returns success and   *)
(* has saved its bundle; the bundle, when no earlier one has its name,     *)
(* holds exactly the images captured - none when both captures failed -    *)
(* and a market state exactly when the terminal answered.                  *)
(***************************************************************************)
C25_BestEffort ==
    [][IsCapture =>
          LET c == Val(lastCapture')
          IN  /\ ~c.raised
              /\ last' # last /\ Val(last').ok /\ ~Val(last').raised
              /\ CapturedKey \in DOMAIN snapshots'
              /\ snapshots'[CapturedKey].thought # None
              /\ CapturedKey \notin DOMAIN snapshots =>
                    /\ snapshots'[CapturedKey].screenshots =
                          (IF c.mql5 = "ok" \/ c.windows = "ok"
                           THEN AllTimeframes ELSE {})
                    /\ (snapshots'[CapturedKey].market = None) <=> ~c.reachable]_vars

\* a session was started while the MQL5 capture timed out, the window
\* capture failed and the terminal could not be reached: it is active, and
\* its entry bundle has the thought and nothing else
C25_Witness ==
    /\ IsSome(lastCapture) /\ IsSome(last) /\ IsSome(active_session)
    /\ Val(lastCapture).mql5 = "timeout" /\ Val(lastCapture).windows = "failed"
    /\ ~Val(lastCapture).reachable
    /\ Val(last).op = "start_session" /\ Val(last).ok
    /\ LET key == <<Val(active_session_dir), <<Strftime(clock), "BUY">>>>
       IN  /\ key \in DOMAIN snapshots
           /\ snapshots[key].screenshots = {}
           /\ snapshots[key].market = None
           /\ snapshots[key].thought # None

\* the entries of lines at the indices K, in their order
Pick(lines, K) ==
    LET n == Cardinality(K)
        f == CHOOSE f \in [1..n -> K] : \A a, b \in 1..n : a < b => f[a] < f[b]
    IN  [a \in 1..n |-> lines[f[a]]]
\* the indices the claim keeps: not a copy, and no earlier entry that is not
\* a copy has the same price to 2 decimals
KeptLines(lines) ==
    {i \in DOMAIN lines :
        /\ ~IsCopied(lines[i].name)
        /\ \A j \in 1..(i - 1) :
              ~IsCopied(lines[j].name) =>
                 PriceKey(lines[j].price) # PriceKey(lines[i].price)}

(***************************************************************************)
(* C26: read_raw returns, in the order of the file, exactly the lines      *)
(* whose name does not contain "_copied_" and whose price, rounded to 2    *)
(* decimals, is not the rounded price of an earlier line kept: the first   *)
(* of a price wins, and a copied line dropped reserves no price.  Reading  *)
(* what was read returns it unchanged.                                     *)
(***************************************************************************)
C26_FilterLines ==
    IsSome(lines_read) =>
        LET r == Val(lines_read)
        IN  /\ r.lines = Pick(r.file, KeptLines(r.file))
            /\ ReadRaw(r.lines) = r.lines

\* a file read whose first line is a copy at a price, whose second is a line
\* at that price and whose third is a line within the same hundredth: the
\* second alone is returned
C26_Witness ==
    /\ IsSome(lines_read)
    /\ LET r == Val(lines_read)
       IN  /\ Len(r.file) = 3
           /\ IsCopied(r.file[1].name)
           /\ ~IsCopied(r.file[2].name) /\ ~IsCopied(r.file[3].name)
           /\ r.file[1].price = r.file[2].price
           /\ r.file[3].price # r.file[2].price
           /\ PriceKey(r.file[3].price) = PriceKey(r.file[2].price)
           /\ r.lines = <<r.file[2]>>

\* the close of the last M1 bar of a market state, if it has one
M1Close(market_state) ==
    IF IsSome(market_state) /\ IsSome(Val(market_state).m1)
    THEN Val(Val(market_state).m1) ELSE 0

(***************************************************************************)
(* C27: the price a start_session or end_session records is the price of   *)
(* the last position the monitor has reported, once it has reported one;   *)
(* the close of the last M1 bar is used only while no position price is    *)
(* known.                                                                  *)
(***************************************************************************)
C27_PositionPrice ==
    [][(last' # last /\ Val(last').ok
        /\ Val(last').op \in {"start_session", "end_session"}) =>
          Val(last').price =
             (IF IsSome(mon_last_position_info)
              THEN Val(mon_last_position_info).price
              ELSE M1Close(last_market_state'))]_vars

\* an accepted action was counted in this step: a session verb returned
\* success, a detection other than HOLD was handed to the callback, or a
\* thread finished the actions_count += 1 of one of the two
AcceptedAction ==
    \/ last' # last /\ Val(last').ok
    \/ reported' # reported
    \/ increments' # increments

(***************************************************************************)
(* C29: actions_count goes up by exactly one with each accepted action -   *)
(* a detection other than HOLD, a start_session, add_hold or end_session   *)
(* that succeeded - and last_action_at is set with it; a HOLD tick, a      *)
(* rejected verb and every other step leave both as they were, so the      *)
(* count never goes down.                                                  *)
(***************************************************************************)
C29_CountsAccepted ==
    [][/\ AcceptedAction =>
             (actions_count' = actions_count + 1 /\ last_action_at' # None)
       /\ ~AcceptedAction => UNCHANGED <<actions_count, last_action_at>>]_vars

\* the ids of the sessions storage holds as completed
CompletedIds == {s.session_id : s \in {p \in Persisted : p.status = "COMPLETED"}}

(***************************************************************************)
(* C30: a session end_session has completed is frozen.  No later verb      *)
(* changes its record in storage: get_session(id) returns after every step *)
(* the completed session it returned before.                               *)
(***************************************************************************)
C30_CompletedFrozen ==
    [][\A id \in CompletedIds :
          GetSession(disk', id) = GetSession(disk, id)]_vars

(***************************************************************************)
(* C31: add_hold on an ACTIVE session appends one hold record at the end   *)
(* of holds and adds one to snapshot_count, and leaves session_id, symbol, *)
(* status, entry, exit, result and the earlier hold records as they were.  *)
(***************************************************************************)
\* the step is an add_hold call that found an ACTIVE session in the slot
HoldOnActive ==
    /\ ncalls' = ncalls + 1
    /\ IsSome(last') /\ Val(last').op = "add_hold"
    /\ IsSome(active_session) /\ Val(active_session).status = "ACTIVE"
C31_HoldFrame ==
    [][HoldOnActive =>
         /\ IsSome(active_session')
         /\ LET s == Val(active_session)
                s2 == Val(active_session')
            IN  /\ Len(s2.holds) = Len(s.holds) + 1
                /\ SubSeq(s2.holds, 1, Len(s.holds)) = s.holds
                /\ s2.snapshot_count = s.snapshot_count + 1
                /\ [s2 EXCEPT !.holds = s.holds,
                              !.snapshot_count = s.snapshot_count] = s
                /\ s2.entry = s.entry /\ Val(s2.entry).action = "BUY"]_vars

\* a second hold, later than the entry, has been added to a session
C31_Witness ==
    /\ LastIs("add_hold") /\ Val(last).ok
    /\ IsSome(active_session)
    /\ Len(Val(active_session).holds) = 2
    /\ Val(active_session).holds[2].time > Val(Val(active_session).entry).time

(***************************************************************************)
(* C32: every session that has an exit, in memory or in storage, has the   *)
(* exit action SELL or STOP_LOSS: an end request with the action BUY or    *)
(* HOLD is answered with a rejection and completes no session.             *)
(***************************************************************************)
C32_ExitActions ==
    /\ \A s \in AllSessions :
          IsSome(s.exit) => Val(s.exit).action \in {"SELL", "STOP_LOSS"}
    /\ \A i \in DOMAIN handlers :
          (handlers[i].verb = "end" /\ handlers[i].pc = "done"
              /\ handlers[i].action \in {"BUY", "HOLD"}) => handlers[i].status = 400

\* an end with BUY and an end with HOLD were rejected while a session was
\* active, and the session is ACTIVE still
C32_Witness ==
    /\ IsSome(active_session) /\ Val(active_session).exit = None
    /\ \E i, j \in DOMAIN handlers :
          /\ handlers[i].verb = "end" /\ handlers[i].action = "BUY"
          /\ handlers[j].verb = "end" /\ handlers[j].action = "HOLD"
          /\ handlers[i].detail = "Invalid action" /\ handlers[j].detail = "Invalid action"

(***************************************************************************)
(* C33: while the polling loop runs it owns the connection to the          *)
(* terminal: the connection it was started on is there at every poll, no   *)
(* market-state collection of the screenshot loop or of a session verb     *)
(* having shut it down, and so no poll reports the close of a position     *)
(* that is open at the broker.                                             *)
(***************************************************************************)
C33_ConnectionOwned ==
    /\ (mon_running /\ mon_thread) => mt5_connected
    /\ \A e \in reported : e[1] = "close" => e[2] \in closed

(***************************************************************************)
(* C34: every snapshot bundle is written once: each successful             *)
(* start_session, add_hold and end_session leaves a bundle of its own      *)
(* under its session and no later verb writes into a bundle that is there, *)
(* so a session has as many bundles as its snapshot_count says, two verbs  *)
(* within one second of the clock included.                                *)
(***************************************************************************)
\* the bundles stored under a session directory
Bundles(dir) == {k \in DOMAIN snapshots : k[1] = dir}
C34_WriteOnce ==
    \A dir \in DOMAIN disk :
        Cardinality(Bundles(dir)) = disk[dir].snapshot_count

(***************************************************************************)
(* C35: detections are delivered strictly one after the other: at any time *)
(* at most one poll iteration is in progress, whatever start() and stop()  *)
(* calls were made, a stop() whose join timed out and a start() after it   *)
(* included.  So no iteration is made while two poll threads are alive:    *)
(* the thread of the last start() and a thread an earlier stop() gave up   *)
(* joining, which is inside an iteration or back in the loop.              *)
(***************************************************************************)
C35_Sequential ==
    [][IsIter => ~(mon_thread /\ late_thread)]_vars

(***************************************************************************)
(* C36: start() takes the positions open at that moment as the baseline    *)
(* before any poll is made, so a ticket that was open when the monitor was *)
(* started is never reported as BUY: a poll reports BUY only for a ticket  *)
(* that was not open then.                                                 *)
(***************************************************************************)
C36_BaselineAtStart ==
    [][/\ (IsStart /\ ~mon_running /\ mon_running') =>
              previous_positions' = Positions(broker)
       /\ (IsIter /\ IsSome(lastStart) /\ IsSome(lastPoll')
              /\ Val(lastPoll').action = "BUY") =>
              Val(Val(lastPoll').position).ticket \notin Val(lastStart).open]_vars

(***************************************************************************)
(* C37: whenever has_active_session() is true the session in the active    *)
(* slot has status ACTIVE, no exit and no result, after every verb call,   *)
(* an end_session or a force-completion that a failing write ended early   *)
(* included.                                                               *)
(***************************************************************************)
C37_ActiveSlotIsActive ==
    IsSome(active_session) =>
        /\ Val(active_session).status = "ACTIVE"
        /\ Val(active_session).exit = None
        /\ Val(active_session).result = None

(***************************************************************************)
(* C38: every change of the position set is reported at most once: the     *)
(* opening of a ticket, and its closing, leaves at most one entry in the   *)
(* action log and at most one in the pending queue, an iteration in which  *)
(* the callback raises included.                                           *)
(***************************************************************************)
\* the entries of the action log that tell of ticket t opening or closing
LogEntries(kind, t) ==
    {i \in DOMAIN action_log :
        /\ IsSome(action_log[i].position)
        /\ Val(action_log[i].position).ticket = t
        /\ (action_log[i].action = "BUY") = (kind = "open")}
C38_ReportedOnce ==
    /\ \A kind \in {"open", "close"}, t \in Tickets :
          Cardinality(LogEntries(kind, t)) <= 1
    /\ Len(pending_actions) <= Cardinality(reported)

(***************************************************************************)
(* C39: once a market state has been collected, the last-known market      *)
(* state of the service stays present: no later collection that fails, in  *)
(* the screenshot loop or inside a session verb, puts an absent value in   *)
(* its place, and no session verb that runs after an M1 close has been     *)
(* known records the price 0.                                              *)
(***************************************************************************)
C39_MarketStateKept ==
    [][IsSome(last_market_state) =>
          /\ IsSome(last_market_state')
          /\ (ncalls' = ncalls + 1 /\ Val(last').op \in {"start_session", "end_session"}
                 /\ Val(last').ok) => Val(last').price # 0]_vars

(***************************************************************************)
(* C40: sessions change through the three session verbs only: a detection  *)
(* of the poll loop (BUY, SELL or STOP_LOSS), a rationale submitted, and    *)
(* start() and stop() of the collector leave the active slot and every     *)
(* session record and bundle in storage as they were; a position detected  *)
(* as closed does not end the ACTIVE session.                              *)
(***************************************************************************)
C40_OnlyVerbs ==
    [][ncalls' = ncalls =>
          UNCHANGED <<active_session, active_session_dir, disk, snapshots>>]_vars

\* a session was started, a close was detected after that and a rationale
\* submitted, the collector was stopped, and the session is ACTIVE still
C40_Witness ==
    /\ IsSome(active_session) /\ Val(active_session).status = "ACTIVE"
    /\ Val(active_session).exit = None
    /\ \E i \in DOMAIN pending_actions :
          /\ pending_actions[i].action \in ExitActions
          /\ pending_actions[i].timestamp > Val(Val(active_session).entry).time
    /\ nsubmit = 1
    /\ IsSome(lastStart) /\ ~svc_running /\ ~mon_running
====
